---- MODULE Spec2Model ----
(***************************************************************************)
(* Release resolution and staged rollout of the JetKVM cloud API           *)
(* (src/src/releases.ts, src/src/helpers.ts), its sign-in callback         *)
(* (src/src/oidc.ts) and its session middleware (src/src/auth.ts).         *)
(*                                                                         *)
(* Remote storage (S3/R2), the persisted release table (prisma.release)    *)
(* and the two LRU caches are the shared state.  Every step of a handler   *)
(* (the code between two awaits) is a function on that state and the       *)
(* handler's locals.  Spec and SkuSpec serve requests one at a time, with  *)
(* operator rollout changes, publishes and cache expiry between them;      *)
(* ConcSpec interleaves the steps of concurrent requests and the operator, *)
(* as the event loop does.  LookupSpec serves requests over every initial  *)
(* listing of remote storage, and PureSpec applies the pure functions to   *)
(* each input of their bounded domains.  LiveSpec is ConcSpec's stepping   *)
(* under fair scheduling, with the redirect endpoints; KeySpec serves      *)
(* exact pins and SKU names of any form.  FreshSpec starts from an empty   *)
(* release table, RemovalSpec adds removals from remote storage.  OidcSpec *)
(* interleaves concurrent sign-ins over prisma.user and prisma.device, and *)
(* AuthSpec applies the authenticated middleware to each session.          *)
(***************************************************************************)
EXTENDS Integers, Sequences, FiniteSets, TLC

VARIABLES
  folders,       \* remote listing: kind -> set of folder names under "<kind>/"
  objects,       \* remote artifact objects (and their .sha256 files): set of paths
  corrupt,       \* the artifacts whose bytes do not hash to their .sha256 file
  releaseCache,  \* the releaseCache LRU: set of [key, value] entries
  redirectCache, \* the redirectCache LRU: set of [key, value] entries
  db,            \* prisma.release: set of rows
  req,           \* request slot -> the handler's position and locals
  lk,            \* <<slot, kind>> -> position and locals of one getLatestVersion call
  opSet,         \* history: the last operator-set percentage of each (version, type)
  nPub, nOp,     \* inputs consumed so far (publishes, operator changes)
  fnCall,        \* the last call of a pure function: its name, arguments and result
  user,          \* prisma.user: the googleIds of the rows
  device,        \* prisma.device: set of rows [id, user, tempToken, tempTokenExpiresAt]
  cb             \* login slot -> position, session and locals of one OIDC Callback

\* The state of the login flow.
oidcVars == <<user, device, cb>>

vars ==
  <<folders, objects, corrupt, releaseCache, redirectCache, db, req, lk, opSet,
    nPub, nOp, fnCall, user, device, cb>>

-----------------------------------------------------------------------------
(* Bounds of the model *)

MaxRequests == 2
MaxPublishes == 1
MaxOperatorOps == 1

\* The highest rollout percentage given to the pure functions.
MaxPercentage == 100

\* One slot per request of a behaviour, taken in order.
Slots == 1..MaxRequests

-----------------------------------------------------------------------------
(* Values *)

Null == <<>>
Undefined == ""

Kinds == {"app", "system"}

DEFAULT_SKU == "jetkvm-v2"
OTHER_SKU == "jetkvm-v3"
SKUs == {DEFAULT_SKU, OTHER_SKU}

\* A folder name that parses as a semantic version is <<major, minor, patch, pre>>;
\* pre = 0 is a release, pre > 0 a version with a pre-release tag (ordered by pre).
V100 == <<1, 0, 0, 0>>
V110 == <<1, 1, 0, 0>>
V200beta == <<2, 0, 0, 1>>
V100beta == <<1, 0, 0, 1>>

\* The name of a version: "1.1.0", "2.0.0-beta.1".
VersionString(v) ==
  ToString(v[1]) \o "." \o ToString(v[2]) \o "." \o ToString(v[3])
    \o (IF v[4] = 0 THEN "" ELSE "-beta." \o ToString(v[4]))

\* A SKU name with a hyphen, as a client may send: nothing is published for it.
HYPHEN_SKU == "beta.1-jetkvm-v2"

\* For each bucket 0..99 in turn, the first of "device-0", "device-1", ... that
\* falls into it, as <<deviceId, high, low>> of its MD5 digest (see below).
Md5Digests ==
  {<<"device-56", 61686, 7504>>, <<"device-409", 53314, 58897>>,
   <<"device-25", 49517, 44590>>, <<"device-355", 4757, 34951>>,
   <<"device-26", 31965, 41264>>, <<"device-7", 15957, 14453>>,
   <<"device-87", 34745, 59086>>, <<"device-10", 10787, 12875>>,
   <<"device-5", 58307, 28456>>, <<"device-465", 59218, 49161>>,
   <<"device-80", 54344, 26526>>, <<"device-24", 59862, 56079>>,
   <<"device-3", 17411, 28816>>, <<"device-165", 46212, 11881>>,
   <<"device-67", 12995, 37094>>, <<"device-2", 10209, 27291>>,
   <<"device-48", 55624, 54552>>, <<"device-176", 16412, 2885>>,
   <<"device-16", 8316, 63542>>, <<"device-37", 14521, 10763>>,
   <<"device-54", 39526, 13584>>, <<"device-73", 63786, 5725>>,
   <<"device-86", 36570, 28202>>, <<"device-65", 54595, 40603>>,
   <<"device-9", 42688, 12556>>, <<"device-277", 58029, 39781>>,
   <<"device-108", 45548, 29798>>, <<"device-149", 64963, 21459>>,
   <<"device-171", 8815, 23688>>, <<"device-77", 49137, 27297>>,
   <<"device-283", 31735, 19970>>, <<"device-153", 58719, 34047>>,
   <<"device-135", 37147, 54940>>, <<"device-64", 53272, 9241>>,
   <<"device-157", 59991, 37358>>, <<"device-450", 49628, 3927>>,
   <<"device-120", 23373, 33008>>, <<"device-35", 47575, 36037>>,
   <<"device-84", 40207, 34086>>, <<"device-234", 44121, 7783>>,
   <<"device-17", 10728, 27432>>, <<"device-326", 25498, 28413>>,
   <<"device-71", 58083, 49154>>, <<"device-40", 13033, 13055>>,
   <<"device-18", 52370, 30824>>, <<"device-124", 26366, 60569>>,
   <<"device-72", 27248, 37618>>, <<"device-27", 61270, 25627>>,
   <<"device-49", 50521, 55992>>, <<"device-91", 49199, 13185>>,
   <<"device-211", 2737, 35718>>, <<"device-55", 8802, 28179>>,
   <<"device-45", 10966, 20076>>, <<"device-29", 31385, 18693>>,
   <<"device-41", 22331, 39138>>, <<"device-34", 18506, 3239>>,
   <<"device-75", 68, 18908>>, <<"device-21", 57741, 47281>>,
   <<"device-114", 63504, 30714>>, <<"device-15", 59057, 48307>>,
   <<"device-31", 8269, 24476>>, <<"device-22", 33991, 48685>>,
   <<"device-14", 37930, 13782>>, <<"device-53", 13233, 25675>>,
   <<"device-70", 24721, 33108>>, <<"device-4", 16770, 13645>>,
   <<"device-90", 52745, 22846>>, <<"device-92", 33326, 63131>>,
   <<"device-0", 8429, 49024>>, <<"device-112", 50980, 21589>>,
   <<"device-36", 41501, 39834>>, <<"device-304", 16744, 37987>>,
   <<"device-12", 32883, 24184>>, <<"device-47", 51280, 693>>,
   <<"device-111", 21814, 29770>>, <<"device-248", 36619, 16491>>,
   <<"device-169", 8975, 46076>>, <<"device-206", 26418, 24129>>,
   <<"device-138", 30719, 33194>>, <<"device-145", 49916, 1803>>,
   <<"device-161", 25693, 26032>>, <<"device-38", 29768, 20833>>,
   <<"device-156", 32740, 62242>>, <<"device-61", 41246, 46827>>,
   <<"device-95", 54430, 24604>>, <<"device-42", 42963, 55517>>,
   <<"device-1", 53521, 62730>>, <<"device-110", 35291, 22911>>,
   <<"device-99", 49373, 60860>>, <<"device-8", 22114, 34785>>,
   <<"device-121", 64405, 51410>>, <<"device-30", 51615, 62551>>,
   <<"device-19", 64531, 61776>>, <<"device-6", 13797, 7701>>,
   <<"device-359", 35946, 54438>>, <<"device-89", 11560, 14235>>,
   <<"device-28", 50487, 42064>>, <<"device-76", 48894, 56313>>,
   <<"device-51", 8213, 51030>>, <<"device-20", 23483, 20311>>}

\* Device identifiers with the first 8 hex digits of their MD5 digest, as the
\* two 16-bit halves <<high, low>> of the unsigned 32-bit number they spell.
Devices == {"device-eligible-3", "device-not-eligible-188"}
Md5Prefix(deviceId) ==
  CASE deviceId = "device-eligible-3" -> <<50077, 58533>>        \* c39d e4a5
    [] deviceId = "device-not-eligible-188" -> <<847, 47158>>    \* 034f b836
    [] \E e \in Md5Digests : e[1] = deviceId ->
         LET e == CHOOSE e \in Md5Digests : e[1] = deviceId IN <<e[2], e[3]>>
    [] OTHER -> <<0, 0>>

\* The device identifiers of the digest table.
BucketDevices == {e[1] : e \in Md5Digests}

-----------------------------------------------------------------------------
(* helpers.ts *)

\* The normalized ranges validRange produces here: "*" and ">=1.0.0 <2.0.0-0".
Star == <<"*", 0>>
Caret1 == <<"^", 1>>

Exact(v) == <<"=", v>>

validRange(range) ==
  CASE range = "*" -> Star
    [] range = "^1.0.0" -> Caret1
    [] range = "1.0.0" -> Exact(V100)
    [] range = "1.0.0-beta.1" -> Exact(V100beta)
    [] OTHER -> Null

\* The normalized range as validRange returns it.
RangeString(range) ==
  CASE range = Star -> "*"
    [] range = Caret1 -> ">=1.0.0 <2.0.0-0"
    [] OTHER -> VersionString(range[2])

\* toSemverRange taking a range it cannot parse for a pin.
toSemverRangePinning(range) ==
  IF range = Undefined THEN Star
  ELSE IF validRange(range) # Null THEN validRange(range) ELSE Caret1

toSemverRange(range) ==
  IF range = Undefined THEN Star
  ELSE IF validRange(range) # Null THEN validRange(range) ELSE Star

\* The bucket with the 8 hex digits read as a signed 32-bit integer (as `| 0`
\* would): from 0x80000000 on the number is negative and so is the remainder.
getDeviceRolloutBucketSigned(deviceId) ==
  LET hashPrefix == Md5Prefix(deviceId)
  IN IF hashPrefix[1] < 32768
     THEN ((hashPrefix[1] % 100) * (65536 % 100) + hashPrefix[2]) % 100
     ELSE 0 - ((((65535 - hashPrefix[1]) % 100) * (65536 % 100)
                  + (65536 - hashPrefix[2])) % 100)

\* parseInt(hashPrefix, 16) % 100, with high * 2^16 + low reduced modulo 100
\* half by half (2^16 % 100 = 36).
getDeviceRolloutBucket(deviceId) ==
  LET hashPrefix == Md5Prefix(deviceId)
  IN ((hashPrefix[1] % 100) * (65536 % 100) + hashPrefix[2]) % 100

-----------------------------------------------------------------------------
(* semver *)

semverValid(v) == Len(v) = 4

\* -1, 0, 1 as semver.compare: a release is above its pre-releases.
semverCompare(a, b) ==
  IF a[1] # b[1] THEN (IF a[1] < b[1] THEN -1 ELSE 1)
  ELSE IF a[2] # b[2] THEN (IF a[2] < b[2] THEN -1 ELSE 1)
  ELSE IF a[3] # b[3] THEN (IF a[3] < b[3] THEN -1 ELSE 1)
  ELSE IF a[4] = b[4] THEN 0
  ELSE IF a[4] = 0 THEN 1
  ELSE IF b[4] = 0 THEN -1
  ELSE IF a[4] < b[4] THEN -1 ELSE 1

\* semver.satisfies(v, range, {includePrerelease}).  Without includePrerelease a
\* version with a pre-release tag satisfies a range only through a comparator
\* on its own [major, minor, patch] that carries a tag; "*" and the caret
\* range's lower comparator carry none, and its upper one is on 2.0.0; a range
\* that is one version is satisfied by that version alone, tagged or not.
semverSatisfies(v, range, includePrerelease) ==
  IF range[1] = "="
  THEN v = range[2]
  ELSE /\ range = Star \/ (v[1] = range[2] /\ semverCompare(v, <<range[2], 0, 0, 0>>) >= 0)
       /\ includePrerelease \/ v[4] = 0

semverMaxSatisfying(versions, range, includePrerelease) ==
  LET ok == {v \in versions : semverSatisfies(v, range, includePrerelease)}
  IN IF ok = {} THEN Null
     ELSE CHOOSE v \in ok : \A w \in ok : semverCompare(v, w) >= 0

-----------------------------------------------------------------------------
(* Remote storage *)

\* The artifact Retrieve serves for a kind, and everything published for it
\* (the system folder also holds the recovery image).
ArtifactOf(prefix) == IF prefix = "app" THEN "jetkvm_app" ELSE "system.tar"
ArtifactsOf(prefix) ==
  IF prefix = "app" THEN {"jetkvm_app"} ELSE {"system.tar", "update.img"}

\* `${prefix}/${version}/skus/${sku}/${artifact}`
SkuPath(prefix, version, sku, artifact) ==
  [prefix |-> prefix, version |-> version, skus |-> TRUE, sku |-> sku,
   artifact |-> artifact]

\* `${prefix}/${version}/${artifact}`
LegacyPath(prefix, version, artifact) ==
  [prefix |-> prefix, version |-> version, skus |-> FALSE, sku |-> "",
   artifact |-> artifact]

\* `${baseUrl}/${selectedPath}`
UrlOf(path) == <<"R2_CDN_URL", path>>

\* The text of `${path}.sha256` as published with the artifact.
HashOf(path) == <<"sha256", path>>

\* What a publish may upload for one version: its skus/ folders and whether the
\* legacy (unpartitioned) artifacts are there too.
Layouts ==
  {[skus |-> {}, legacy |-> TRUE],
   [skus |-> {DEFAULT_SKU}, legacy |-> FALSE],
   [skus |-> SKUs, legacy |-> FALSE],
   [skus |-> {OTHER_SKU}, legacy |-> TRUE]}

LegacyLayout == [skus |-> {}, legacy |-> TRUE]

\* The objects of version `name` of kind k under `layout`.
Uploads(k, name, layout) ==
  {SkuPath(k, name, sku, artifact) : sku \in layout.skus, artifact \in ArtifactsOf(k)}
    \cup (IF layout.legacy
          THEN {LegacyPath(k, name, artifact) : artifact \in ArtifactsOf(k)} ELSE {})

-----------------------------------------------------------------------------
(* Query parsing (zod schemas) *)

queryString(v) == v
queryBoolean(v) == v = "true"
querySku(v) == IF v = Undefined THEN DEFAULT_SKU ELSE v

\* The raw query strings a client may send to Retrieve.
RawRanges == {Undefined, "latest", "^1.0.0"}
RawRetrieveQueries ==
  [deviceId : Devices \cup {Undefined}, prerelease : {Undefined, "true"},
   appVersion : RawRanges, systemVersion : RawRanges,
   sku : {Undefined, OTHER_SKU}, forceUpdate : {Undefined, "true"}]

\* The queries of the staged-rollout scenarios: default SKU, at most one pin.
RolloutQueries ==
  {q \in RawRetrieveQueries :
     /\ q.sku = Undefined
     /\ q.systemVersion \in {Undefined, "^1.0.0"}
     /\ q.appVersion = Undefined \/ q.systemVersion = Undefined}

\* The queries with no version pin, default SKU.
UnpinnedQueries ==
  {q \in RolloutQueries : q.appVersion = Undefined /\ q.systemVersion = Undefined}

\* The queries of the SKU scenarios: unpinned, stable channel, either SKU.
SkuQueries ==
  {q \in RawRetrieveQueries :
     /\ q.deviceId # Undefined
     /\ q.prerelease = Undefined
     /\ q.appVersion = Undefined /\ q.systemVersion = Undefined}

\* The queries of the lookup scenarios: one device, app range and channel vary.
LookupQueries ==
  {q \in RawRetrieveQueries :
     /\ q.deviceId = "device-eligible-3"
     /\ q.appVersion \in {Undefined, "^1.0.0"}
     /\ q.systemVersion = Undefined
     /\ q.forceUpdate = Undefined}

\* The queries of the concurrent first-sightings: unpinned, stable channel,
\* default SKU.
ConcQueries ==
  {q \in SkuQueries : q.sku = Undefined /\ q.deviceId = "device-eligible-3"}

\* The queries of the termination scenarios: unpinned, default SKU, with and
\* without a device id, either channel.
LiveQueries ==
  {q \in RawRetrieveQueries :
     /\ q.deviceId \in {Undefined, "device-eligible-3"}
     /\ q.appVersion = Undefined /\ q.systemVersion = Undefined
     /\ q.sku = Undefined /\ q.forceUpdate = Undefined}

\* The queries of the cache-key scenarios: one device, the app pinned to the
\* version 1.0.0 or 1.0.0-beta.1, the default SKU or a SKU with a hyphen.
KeyQueries ==
  [deviceId : {"device-eligible-3"}, prerelease : {Undefined, "true"},
   appVersion : {"1.0.0", "1.0.0-beta.1"}, systemVersion : {Undefined},
   sku : {Undefined, HYPHEN_SKU}, forceUpdate : {Undefined}]

\* retrieveQuerySchema with an optional deviceId.
retrieveQuerySchemaLax(raw) ==
  [deviceId |-> raw.deviceId,
   prerelease |-> queryBoolean(raw.prerelease),
   appVersion |-> queryString(raw.appVersion),
   systemVersion |-> queryString(raw.systemVersion),
   sku |-> querySku(raw.sku),
   forceUpdate |-> queryBoolean(raw.forceUpdate)]

\* retrieveQuerySchema.parse: Null stands for the ZodError ("Device ID is required").
retrieveQuerySchema(raw) ==
  IF raw.deviceId = Undefined THEN Null
  ELSE [deviceId |-> raw.deviceId,
        prerelease |-> queryBoolean(raw.prerelease),
        appVersion |-> queryString(raw.appVersion),
        systemVersion |-> queryString(raw.systemVersion),
        sku |-> querySku(raw.sku),
        forceUpdate |-> queryBoolean(raw.forceUpdate)]

\* The raw query strings a client may send to the redirect endpoints.
RawLatestQueries == [prerelease : {Undefined, "true"}, sku : {Undefined, OTHER_SKU}]

\* The redirect queries of the cache-key scenarios.
KeyLatestQueries == [prerelease : {Undefined, "true"}, sku : {Undefined, HYPHEN_SKU}]

latestQuerySchema(raw) ==
  [prerelease |-> queryBoolean(raw.prerelease), sku |-> querySku(raw.sku)]

-----------------------------------------------------------------------------
(* Caches *)

\* `${prefix}-${includePrerelease}-${maxSatisfying}-${sku}`
CacheKey(prefix, includePrerelease, maxSatisfying, sku) ==
  prefix \o "-" \o (IF includePrerelease THEN "true" ELSE "false")
    \o "-" \o RangeString(maxSatisfying) \o "-" \o sku

\* `${prefix}-${query.prerelease ? "pre" : "stable"}-${query.sku}`
releaseCacheKey(prefix, query) ==
  prefix \o "-" \o (IF query.prerelease THEN "pre" ELSE "stable") \o "-" \o query.sku

CacheHas(cache, key) == \E e \in cache : e.key = key
CacheGet(cache, key) == (CHOOSE e \in cache : e.key = key).value
CacheSet(cache, key, value) ==
  {e \in cache : e.key # key} \cup {[key |-> key, value |-> value]}

-----------------------------------------------------------------------------
(* The persisted release table *)

RowExists(rows, version, type) ==
  \E row \in rows : row.version = version /\ row.type = type

\* An insert without the unique (version, type) check.
prismaInsert(rows, create) == rows \cup {create}

\* An upsert whose update writes the create data over the row it finds.
prismaUpsertOverwrite(rows, create) ==
  {row \in rows : ~(row.version = create.version /\ row.type = create.type)}
    \cup {create}

\* prisma.release.upsert({where: {version_type}, update: {}, create}): the table after it.
prismaUpsert(rows, create) ==
  IF RowExists(rows, create.version, create.type) THEN rows ELSE rows \cup {create}

\* The upsert reporting a row it has just created as fully rolled out.
prismaUpsertResultNewIsFull(rows, create) ==
  LET row == CHOOSE x \in prismaUpsert(rows, create) :
               x.version = create.version /\ x.type = create.type
  IN [version |-> row.version, url |-> row.url,
      rolloutPercentage |-> IF RowExists(rows, create.version, create.type)
                            THEN row.rolloutPercentage ELSE 100,
      hash |-> row.hash]

\* The row the upsert returns (select: version, url, rolloutPercentage, hash).
prismaUpsertResult(rows, create) ==
  LET row == CHOOSE x \in prismaUpsert(rows, create) :
               x.version = create.version /\ x.type = create.type
  IN [version |-> row.version, url |-> row.url,
      rolloutPercentage |-> row.rolloutPercentage, hash |-> row.hash]

\* prisma.release.findMany({where: {type, rolloutPercentage: 100}})
prismaFindRolledOut(rows, type) ==
  {[version |-> row.version, url |-> row.url, hash |-> row.hash] :
     row \in {x \in rows : x.type = type /\ x.rolloutPercentage = 100}}

-----------------------------------------------------------------------------
(* Release records *)

\* ReleaseMetadata as getLatestVersion builds it (_cachedAt, a clock reading, left out).
ReleaseMetadata(version, url, hash, maxSatisfying) ==
  [version |-> version, url |-> url, hash |-> hash, _maxSatisfying |-> maxSatisfying]

MaxSatisfyingOf(release) ==
  IF "_maxSatisfying" \in DOMAIN release THEN release._maxSatisfying ELSE Null

EmptyRelease ==
  [appVersion |-> Null, appUrl |-> Null, appHash |-> Null, appMaxSatisfying |-> Null,
   systemVersion |-> Null, systemUrl |-> Null, systemHash |-> Null,
   systemMaxSatisfying |-> Null]

\* setAppRelease copying the version alone: url and hash stay those of the
\* record set before.
setAppReleaseVersionOnly(release, appRelease) ==
  [release EXCEPT !.appVersion = appRelease.version,
                  !.appMaxSatisfying = MaxSatisfyingOf(appRelease)]

setAppRelease(release, appRelease) ==
  [release EXCEPT !.appVersion = appRelease.version,
                  !.appUrl = appRelease.url,
                  !.appHash = appRelease.hash,
                  !.appMaxSatisfying = MaxSatisfyingOf(appRelease)]

setSystemRelease(release, systemRelease) ==
  [release EXCEPT !.systemVersion = systemRelease.version,
                  !.systemUrl = systemRelease.url,
                  !.systemHash = systemRelease.hash,
                  !.systemMaxSatisfying = MaxSatisfyingOf(systemRelease)]

toRelease(appRelease, systemRelease) ==
  setSystemRelease(setAppRelease(EmptyRelease, appRelease), systemRelease)

\* Eligibility with the comparison turned around.
isDeviceEligibleInverted(rolloutPercentage, deviceId) ==
  IF rolloutPercentage = 100 THEN TRUE
  ELSE rolloutPercentage < getDeviceRolloutBucket(deviceId)

isDeviceEligibleForLatestRelease(rolloutPercentage, deviceId) ==
  IF rolloutPercentage = 100 THEN TRUE
  ELSE getDeviceRolloutBucket(deviceId) < rolloutPercentage

\* getDefaultRelease taking the lowest fully rolled out version.
defaultReleaseLowest(rolledOutReleases) ==
  IF rolledOutReleases = {} THEN Null
  ELSE CHOOSE x \in rolledOutReleases :
         \A other \in rolledOutReleases : semverCompare(x.version, other.version) <= 0

\* getDefaultRelease after findMany returned `rolledOutReleases`: Null stands for
\* InternalServerError("No default release found").
defaultReleaseOf(rolledOutReleases) ==
  IF rolledOutReleases = {} THEN Null
  ELSE LET latestVersion ==
             semverMaxSatisfying({x.version : x \in rolledOutReleases}, Star, FALSE)
       IN IF \E x \in rolledOutReleases : x.version = latestVersion
          THEN CHOOSE x \in rolledOutReleases : x.version = latestVersion
          ELSE Null

\* Gating with one decision for both kinds: the latest releases are served only
\* to a device eligible for both.
gatedReleaseCoupled(defaultApp, defaultSystem, latestApp, latestSystem, deviceId) ==
  IF /\ isDeviceEligibleForLatestRelease(latestApp.rolloutPercentage, deviceId)
     /\ isDeviceEligibleForLatestRelease(latestSystem.rolloutPercentage, deviceId)
  THEN toRelease(latestApp, latestSystem)
  ELSE toRelease(defaultApp, defaultSystem)

\* Lines 433-453 of Retrieve: the default releases, each replaced by the latest
\* one when the device is eligible for it.
gatedRelease(defaultApp, defaultSystem, latestApp, latestSystem, deviceId) ==
  LET r0 == toRelease(defaultApp, defaultSystem)
      r1 == IF isDeviceEligibleForLatestRelease(latestApp.rolloutPercentage, deviceId)
            THEN setAppRelease(r0, latestApp) ELSE r0
  IN IF isDeviceEligibleForLatestRelease(latestSystem.rolloutPercentage, deviceId)
     THEN setSystemRelease(r1, latestSystem) ELSE r1

-----------------------------------------------------------------------------
(* Requests *)

IdleRequest ==
  [pc |-> "idle", op |-> "none", query |-> Null, skipRollout |-> FALSE,
   remoteRelease |-> Null, latestApp |-> Null, latestSystem |-> Null,
   defaultApp |-> Null, defaultSystem |-> Null, out |-> Null, dbOps |-> 0]

IdleLookup ==
  [pc |-> "none", includePrerelease |-> FALSE, maxSatisfying |-> Null, sku |-> "",
   artifact |-> "", version |-> Null, hasSku |-> "unknown", path |-> Null,
   release |-> Null, error |-> "", message |-> ""]

Json(body) == [kind |-> "json", body |-> body]
Throw(error, message) == [kind |-> "error", error |-> error, message |-> message]

\* The fully rolled out baseline of a kind: version 1.0.0, published before
\* SKU folders existed, first seen by a default-SKU device and set to 100%.
BaselineRow(type) ==
  [version |-> V100, rolloutPercentage |-> 100,
   url |-> UrlOf(LegacyPath(type, V100, ArtifactOf(type))), type |-> type,
   hash |-> HashOf(LegacyPath(type, V100, ArtifactOf(type)))]

\* A folder name that is not a semver version ("not-semver").
InvalidName == <<"not-semver">>

\* What "<kind>/" may list when the service starts: nothing, no semver name,
\* pre-releases only, the baseline with or without a stray folder, the
\* baseline and 1.1.0, or these and a pre-release of 2.0.0.
Listings ==
  {{}, {InvalidName}, {V200beta}, {V100}, {V100, InvalidName}, {V100, V110},
   {V100, V110, V200beta}}

\* The concurrent OIDC callbacks of the login scenarios.
MaxLogins == 2
Logins == 1..MaxLogins

\* The Google accounts signing in, the device a session may name and the page
\* a session may ask to return to.
Subjects == {"google-a", "google-b"}
AdoptedDevices == {"device-eligible-3"}
ReturnPages == {"https://app.example/setup"}

\* `${APP_HOSTNAME}/devices` and `${APP_HOSTNAME}/already-adopted`.
DevicesPage == "APP_HOSTNAME/devices"
AlreadyAdoptedPage == "APP_HOSTNAME/already-adopted"

IdleSession == [code_verifier |-> Undefined, deviceId |-> Undefined,
                returnTo |-> Undefined, id_token |-> Undefined]

IdleCallback ==
  [pc |-> "idle", session |-> IdleSession, deviceId |-> Undefined,
   returnTo |-> Undefined, subject |-> Undefined, id_token |-> Undefined,
   deviceAdopted |-> Null, tempToken |-> Undefined,
   tempTokenExpiresAt |-> Undefined, out |-> Null]

\* A location of the app: a page and the search parameters appended to it.
AppUrl(url, tempToken, deviceId, oidcGoogle) ==
  [url |-> url, tempToken |-> tempToken, deviceId |-> deviceId,
   oidcGoogle |-> oidcGoogle]
Page(url) == AppUrl(url, Undefined, Undefined, Undefined)

\* Nobody has signed in: no user, no adopted device, no callback running.
SignedOut ==
  /\ user = {}
  /\ device = {}
  /\ cb = [c \in Logins |-> IdleCallback]

\* The service starts with empty caches, the baseline rows and no request.
Booted ==
  /\ releaseCache = {}
  /\ redirectCache = {}
  /\ db = {BaselineRow(k) : k \in Kinds}
  /\ req = [r \in Slots |-> IdleRequest]
  /\ lk = [t \in Slots \X Kinds |-> IdleLookup]
  /\ opSet = {[version |-> V100, type |-> k, value |-> 100] : k \in Kinds}
  /\ nPub = 0
  /\ nOp = 0
  /\ fnCall = [fn |-> "none"]
  /\ SignedOut

\* The process has started and every upload is intact.
Started == corrupt = {} /\ Booted

Init ==
  /\ folders = [k \in Kinds |-> {V100}]
  /\ objects = UNION {Uploads(k, V100, LegacyLayout) : k \in Kinds}
  /\ Started

\* Remote storage in any of its initial listings: 1.0.0 and 2.0.0-beta.1 with
\* their artifacts at the legacy paths, 1.1.0 partitioned for the default SKU.
LookupInit ==
  /\ folders \in [Kinds -> Listings]
  /\ objects =
       {o \in UNION ({Uploads(k, v, LegacyLayout) : k \in Kinds, v \in {V100, V200beta}}
                      \cup {Uploads(k, V110, [skus |-> {DEFAULT_SKU}, legacy |-> FALSE]) :
                              k \in Kinds}) :
          o.version \in folders[o.prefix]}
  /\ Started

\* A deployment whose release table has no row yet: nothing was seeded and no
\* operator has acted.
FreshInit ==
  /\ folders = [k \in Kinds |-> {V100}]
  /\ objects = UNION {Uploads(k, V100, LegacyLayout) : k \in Kinds}
  /\ corrupt = {}
  /\ releaseCache = {}
  /\ redirectCache = {}
  /\ db = {}
  /\ req = [r \in Slots |-> IdleRequest]
  /\ lk = [t \in Slots \X Kinds |-> IdleLookup]
  /\ opSet = {}
  /\ nPub = 0
  /\ nOp = 0
  /\ fnCall = [fn |-> "none"]
  /\ SignedOut

\* The first sighting of version v of a kind by a default-SKU device, at
\* `percentage` now.
SightedRow(type, v, percentage) ==
  [version |-> v, rolloutPercentage |-> percentage,
   url |-> UrlOf(LegacyPath(type, v, ArtifactOf(type))), type |-> type,
   hash |-> HashOf(LegacyPath(type, v, ArtifactOf(type)))]

\* A deployment that began with an empty table: 1.0.0 was first seen and has
\* stayed at 10%, 1.1.0 was published, seen and promoted to 100% by the
\* operator; both are in remote storage.
PromotedInit ==
  /\ folders = [k \in Kinds |-> {V100, V110}]
  /\ objects = UNION {Uploads(k, v, LegacyLayout) : k \in Kinds, v \in {V100, V110}}
  /\ corrupt = {}
  /\ releaseCache = {}
  /\ redirectCache = {}
  /\ db = {SightedRow(k, V100, 10) : k \in Kinds}
            \cup {SightedRow(k, V110, 100) : k \in Kinds}
  /\ req = [r \in Slots |-> IdleRequest]
  /\ lk = [t \in Slots \X Kinds |-> IdleLookup]
  /\ opSet = {[version |-> V110, type |-> k, value |-> 100] : k \in Kinds}
  /\ nPub = 0
  /\ nOp = 0
  /\ fnCall = [fn |-> "none"]
  /\ SignedOut

\* Remote storage with 1.0.0 and 1.0.0-beta.1 at the legacy paths.
KeyInit ==
  /\ folders = [k \in Kinds |-> {V100, V100beta}]
  /\ objects = UNION {Uploads(k, v, LegacyLayout) : k \in Kinds, v \in {V100, V100beta}}
  /\ Started

\* Remote storage with 1.0.0 at the legacy paths and 1.1.0 partitioned for the
\* default SKU, its recovery image damaged.
LiveInit ==
  /\ folders = [k \in Kinds |-> {V100, V110}]
  /\ objects =
       UNION ({Uploads(k, V100, LegacyLayout) : k \in Kinds}
                \cup {Uploads(k, V110, [skus |-> {DEFAULT_SKU}, legacy |-> FALSE]) :
                        k \in Kinds})
  /\ corrupt = {SkuPath("system", V110, DEFAULT_SKU, "update.img")}
  /\ Booted

-----------------------------------------------------------------------------
(* A request's view of the world: its own locals ("request", "lookup") and the *)
(* shared state it reads and writes.  Every step of a handler is a function   *)
(* from worlds to worlds, the identity where the handler is not at that step. *)

World(r) ==
  [request |-> req[r], lookup |-> [k \in Kinds |-> lk[<<r, k>>]],
   folders |-> folders, objects |-> objects, corrupt |-> corrupt,
   releaseCache |-> releaseCache, redirectCache |-> redirectCache, db |-> db]

\* The world `w` of slot r becomes the state.
Install(r, w) ==
  /\ req' = [req EXCEPT ![r] = w.request]
  /\ lk' = [t \in Slots \X Kinds |-> IF t[1] = r THEN w.lookup[t[2]] ELSE lk[t]]
  /\ releaseCache' = w.releaseCache
  /\ redirectCache' = w.redirectCache
  /\ db' = w.db
  /\ UNCHANGED <<folders, objects, corrupt>>

-----------------------------------------------------------------------------
(* getLatestVersion, one call per kind *)

\* getLatestVersion without its cache read: every call lists remote storage.
getLatestVersionUncached(cache, prefix, includePrerelease, maxSatisfying, sku) ==
  [IdleLookup EXCEPT !.pc = "list",
                     !.includePrerelease = includePrerelease,
                     !.maxSatisfying = maxSatisfying,
                     !.sku = sku,
                     !.artifact = ArtifactOf(prefix)]

\* Lines 212-214: the call up to its first await.
getLatestVersionStart(cache, prefix, includePrerelease, maxSatisfying, sku) ==
  LET cacheKey == CacheKey(prefix, includePrerelease, maxSatisfying, sku)
      call == [IdleLookup EXCEPT !.includePrerelease = includePrerelease,
                                 !.maxSatisfying = maxSatisfying,
                                 !.sku = sku,
                                 !.artifact = ArtifactOf(prefix)]
  IN IF CacheHas(cache, cacheKey)
     THEN [call EXCEPT !.pc = "done", !.release = CacheGet(cache, cacheKey)]
     ELSE [call EXCEPT !.pc = "list"]

\* The call has thrown `error` with `message`.
Failed(call, error, message) ==
  [call EXCEPT !.pc = "failed", !.error = error, !.message = message]

\* The selection failing on a folder name that is not a semver version.
getLatestVersionListedStrict(call, commonPrefixes) ==
  LET latestVersion ==
        semverMaxSatisfying({v \in commonPrefixes : semverValid(v)},
                            call.maxSatisfying, call.includePrerelease)
  IN IF \E v \in commonPrefixes : ~semverValid(v)
     THEN Failed(call, "TypeError", "Invalid Version")
     ELSE IF latestVersion = Null
     THEN Failed(call, "NotFoundError", "No version found under prefix that satisfies")
     ELSE [call EXCEPT !.pc = "probe", !.version = latestVersion]

\* The selection made with pre-releases always included.
getLatestVersionListedAnyChannel(call, commonPrefixes) ==
  LET versions == {v \in commonPrefixes : semverValid(v)}
      latestVersion == semverMaxSatisfying(versions, call.maxSatisfying, TRUE)
  IN IF latestVersion = Null
     THEN Failed(call, "NotFoundError", "No version found under prefix that satisfies")
     ELSE [call EXCEPT !.pc = "probe", !.version = latestVersion]

\* Lines 222-245: the listing came back; pick the latest satisfying version.
getLatestVersionListed(call, commonPrefixes) ==
  LET versions == {v \in commonPrefixes : semverValid(v)}
      latestVersion ==
        semverMaxSatisfying(versions, call.maxSatisfying, call.includePrerelease)
  IN IF commonPrefixes = {}
     THEN Failed(call, "NotFoundError", "No versions found under prefix")
     ELSE IF versions = {}
     THEN Failed(call, "NotFoundError", "No valid versions found under prefix")
     ELSE IF latestVersion = Null
     THEN Failed(call, "NotFoundError", "No version found under prefix that satisfies")
     ELSE [call EXCEPT !.pc = "probe", !.version = latestVersion]

\* Lines 488-506 and 557-571: the listing of a redirect endpoint came back.
redirectVersionListed(op, call, commonPrefixes) ==
  LET versions == {v \in commonPrefixes : semverValid(v)}
      latestVersion == semverMaxSatisfying(versions, Star, call.includePrerelease)
  IN IF commonPrefixes = {}
     THEN Failed(call, "NotFoundError",
                 IF op = "RetrieveLatestApp" THEN "No app versions found"
                 ELSE "No versions found under prefix system recovery image")
     ELSE IF latestVersion = Null
     THEN Failed(call, "NotFoundError",
                 IF op = "RetrieveLatestApp" THEN "No valid app versions found"
                 ELSE "No valid system recovery versions found")
     ELSE [call EXCEPT !.pc = "probe", !.version = latestVersion]

\* resolveArtifactPath falling back to the legacy path for every SKU.
resolveArtifactPathAnySku(prefix, call, hasSku) ==
  IF hasSku
  THEN [call EXCEPT !.pc = "head", !.hasSku = "yes",
                    !.path = SkuPath(prefix, call.version, call.sku, call.artifact)]
  ELSE [call EXCEPT !.pc = "hash", !.hasSku = "no",
                    !.path = LegacyPath(prefix, call.version, call.artifact)]

\* resolveArtifactPath, lines 180-203, once versionHasSkuSupport answered.
resolveArtifactPathProbed(prefix, call, hasSku) ==
  IF hasSku
  THEN [call EXCEPT !.pc = "head", !.hasSku = "yes",
                    !.path = SkuPath(prefix, call.version, call.sku, call.artifact)]
  ELSE IF call.sku = DEFAULT_SKU
  THEN [call EXCEPT !.pc = "hash", !.hasSku = "no",
                    !.path = LegacyPath(prefix, call.version, call.artifact)]
  ELSE Failed([call EXCEPT !.hasSku = "no"], "NotFoundError",
              "Version predates SKU support and cannot serve SKU")

\* resolveArtifactPath falling back to the legacy path when the SKU's artifact
\* is missing from a partitioned version.
resolveArtifactPathFallback(call, exists) ==
  IF exists THEN [call EXCEPT !.pc = "hash"]
  ELSE [call EXCEPT !.pc = "hash",
                    !.path = LegacyPath(call.path.prefix, call.version, call.artifact)]

\* resolveArtifactPath stepping down to the baseline version's legacy artifact
\* when the SKU's artifact is missing from a partitioned version.
resolveArtifactPathOlderVersion(call, exists) ==
  IF exists THEN [call EXCEPT !.pc = "hash"]
  ELSE [call EXCEPT !.pc = "hash", !.version = V100,
                    !.path = LegacyPath(call.path.prefix, V100, call.artifact)]

\* resolveArtifactPath, lines 185-189, once s3ObjectExists answered: the path
\* is returned only if the object is there.
resolveArtifactPathHead(call, exists) ==
  IF exists THEN [call EXCEPT !.pc = "hash"]
  ELSE Failed([call EXCEPT !.path = Null], "NotFoundError",
              "SKU is not available for version")

\* Lines 248-266: the digest file is read and the release is built.  A missing
\* digest file makes GetObject throw NoSuchKey.
getLatestVersionHashed(call, found) ==
  IF found
  THEN [call EXCEPT !.pc = "done",
                    !.release = ReleaseMetadata(call.version, UrlOf(call.path),
                                                HashOf(call.path), call.maxSatisfying)]
  ELSE Failed([call EXCEPT !.version = Null, !.hasSku = "unknown", !.path = Null],
              "S3ServiceException", "NoSuchKey")

ListVersions(w, k) ==
  IF w.lookup[k].pc = "list"
  THEN [w EXCEPT !.lookup[k] =
          IF w.request.op = "Retrieve"
          THEN getLatestVersionListed(@, w.folders[k])
          ELSE redirectVersionListed(w.request.op, @, w.folders[k])]
  ELSE w

\* versionHasSkuSupport, lines 143-155, on the objects of world w.
versionHasSkuSupport(w, prefix, version) ==
  \E o \in w.objects : o.prefix = prefix /\ o.version = version /\ o.skus

\* s3ObjectExists, lines 122-137.
s3ObjectExists(w, key) == key \in w.objects

ProbeSkus(w, k) ==
  IF w.lookup[k].pc = "probe"
  THEN [w EXCEPT !.lookup[k] =
          resolveArtifactPathProbed(k, @, versionHasSkuSupport(w, k, @.version))]
  ELSE w

HeadObject(w, k) ==
  IF w.lookup[k].pc = "head"
  THEN [w EXCEPT !.lookup[k] = resolveArtifactPathHead(@, s3ObjectExists(w, @.path))]
  ELSE w

\* Lines 248-268, with the write to releaseCache.
GetHash(w, k) ==
  LET call == getLatestVersionHashed(w.lookup[k], s3ObjectExists(w, w.lookup[k].path))
      cacheKey == CacheKey(k, call.includePrerelease, call.maxSatisfying, call.sku)
  IN IF w.request.op = "Retrieve" /\ w.lookup[k].pc = "hash"
     THEN [w EXCEPT !.lookup[k] = call,
                    !.releaseCache = IF call.pc = "done"
                                     THEN CacheSet(@, cacheKey, call.release) ELSE @]
     ELSE w

\* The failure of the digest fetch leaving an entry without hash in
\* releaseCache, as a write made before the fetch would.
S3FailsCachingPartial(w, k) ==
  LET call == w.lookup[k]
      cacheKey == CacheKey(k, call.includePrerelease, call.maxSatisfying, call.sku)
  IN IF call.pc \in {"list", "probe", "head", "hash"}
     THEN [w EXCEPT !.lookup[k] =
             Failed([@ EXCEPT !.version = Null, !.hasSku = "unknown", !.path = Null],
                    "S3ServiceException", "ServiceUnavailable"),
                    !.releaseCache =
                      IF call.pc = "hash" /\ w.request.op = "Retrieve"
                      THEN CacheSet(@, cacheKey,
                                    ReleaseMetadata(call.version, UrlOf(call.path), Null,
                                                    call.maxSatisfying))
                      ELSE @]
     ELSE w

\* The remote call the lookup is waiting for fails with a transport error.
S3Fails(w, k) ==
  IF w.lookup[k].pc \in {"list", "probe", "head", "hash"}
  THEN [w EXCEPT !.lookup[k] =
          Failed([@ EXCEPT !.version = Null, !.hasSku = "unknown", !.path = Null],
                 "S3ServiceException", "ServiceUnavailable")]
  ELSE w

-----------------------------------------------------------------------------
(* Retrieve *)

\* Lines 362-375: parse the query, normalize the ranges and start both lookups
\* (getReleaseFromS3); each lookup runs up to its first await.
StartRetrieve(w, raw) ==
  LET query == retrieveQuerySchema(raw)
      appVersion == toSemverRange(query.appVersion)
      systemVersion == toSemverRange(query.systemVersion)
      skipRollout == appVersion # Star \/ systemVersion # Star
  IN IF w.request.pc # "idle" THEN w
     ELSE IF query = Null
     THEN [w EXCEPT !.request = [IdleRequest EXCEPT !.pc = "done", !.op = "Retrieve",
                                                    !.out = Throw("BadRequestError",
                                                                   "Device ID is required")]]
     ELSE [w EXCEPT
             !.request =
               [IdleRequest EXCEPT
                  !.pc = "lookup", !.op = "Retrieve",
                  !.query = [query EXCEPT !.appVersion = appVersion,
                                          !.systemVersion = systemVersion],
                  !.skipRollout = skipRollout],
             !.lookup =
               [k \in Kinds |->
                  getLatestVersionStart(w.releaseCache, k, query.prerelease,
                                        IF k = "app" THEN appVersion ELSE systemVersion,
                                        query.sku)]]

\* The catch block rethrowing whatever it caught.
lookupErrorRethrown(error, message) == Throw(error, message)

\* Lines 376-382: Promise.all rejected with `error`.
lookupError(error, message) ==
  IF error = "NotFoundError" THEN Throw(error, message)
  ELSE Throw("InternalServerError", "Failed to get the latest release from S3")

\* Join settling with the first lookup that is done, as Promise.race would.
JoinFirstSettled(w, first) ==
  LET remoteRelease == toRelease(w.lookup[first].release, w.lookup[first].release)
  IN IF ~(w.request.op = "Retrieve" /\ w.request.pc = "lookup") THEN w
     ELSE IF w.lookup[first].pc = "failed"
     THEN [w EXCEPT !.request.pc = "done",
                    !.request.out = lookupError(w.lookup[first].error,
                                            w.lookup[first].message)]
     ELSE IF w.lookup[first].pc # "done" THEN w
     ELSE IF w.request.query.prerelease \/ w.request.skipRollout
     THEN [w EXCEPT !.request.pc = "done",
                    !.request.remoteRelease = remoteRelease,
                    !.request.out = Json(remoteRelease)]
     ELSE [w EXCEPT !.request.pc = "upsertApp",
                    !.request.remoteRelease = remoteRelease]

\* Join that settles only when both lookups are done: a failed lookup is never
\* reported.
JoinUnlessFailed(w, first) ==
  LET remoteRelease == toRelease(w.lookup["app"].release, w.lookup["system"].release)
  IN IF ~(w.request.op = "Retrieve" /\ w.request.pc = "lookup") THEN w
     ELSE IF \E k \in Kinds : w.lookup[k].pc # "done" THEN w
     ELSE IF w.request.query.prerelease \/ w.request.skipRollout
     THEN [w EXCEPT !.request.pc = "done",
                    !.request.remoteRelease = remoteRelease,
                    !.request.out = Json(remoteRelease)]
     ELSE [w EXCEPT !.request.pc = "upsertApp",
                    !.request.remoteRelease = remoteRelease]

\* Join with forceUpdate taken as a bypass: the response leaves before the
\* upserts.
JoinForceBypass(w, first) ==
  LET remoteRelease == toRelease(w.lookup["app"].release, w.lookup["system"].release)
  IN IF ~(w.request.op = "Retrieve" /\ w.request.pc = "lookup") THEN w
     ELSE IF w.lookup[first].pc = "failed"
     THEN [w EXCEPT !.request.pc = "done",
                    !.request.out = lookupError(w.lookup[first].error,
                                            w.lookup[first].message)]
     ELSE IF \E k \in Kinds : w.lookup[k].pc # "done" THEN w
     ELSE IF w.request.query.prerelease \/ w.request.skipRollout
               \/ w.request.query.forceUpdate
     THEN [w EXCEPT !.request.pc = "done",
                    !.request.remoteRelease = remoteRelease,
                    !.request.out = Json(remoteRelease)]
     ELSE [w EXCEPT !.request.pc = "upsertApp",
                    !.request.remoteRelease = remoteRelease]

\* Join with the bypass taken only when both ranges are pinned.
JoinBothPinned(w, first) ==
  LET remoteRelease == toRelease(w.lookup["app"].release, w.lookup["system"].release)
      bothPinned == \A k \in Kinds : w.lookup[k].maxSatisfying # Star
  IN IF ~(w.request.op = "Retrieve" /\ w.request.pc = "lookup") THEN w
     ELSE IF w.lookup[first].pc = "failed"
     THEN [w EXCEPT !.request.pc = "done",
                    !.request.out = lookupError(w.lookup[first].error,
                                            w.lookup[first].message)]
     ELSE IF \E k \in Kinds : w.lookup[k].pc # "done" THEN w
     ELSE IF w.request.query.prerelease \/ bothPinned
     THEN [w EXCEPT !.request.pc = "done",
                    !.request.remoteRelease = remoteRelease,
                    !.request.out = Json(remoteRelease)]
     ELSE [w EXCEPT !.request.pc = "upsertApp",
                    !.request.remoteRelease = remoteRelease]

\* Join with the bypass taken for pinned ranges only.
JoinPinOnly(w, first) ==
  IF ~(w.request.op = "Retrieve" /\ w.request.pc = "lookup") THEN w
  ELSE IF w.lookup[first].pc = "failed"
  THEN [w EXCEPT !.request.pc = "done",
                 !.request.out = lookupError(w.lookup[first].error,
                                            w.lookup[first].message)]
  ELSE IF \E k \in Kinds : w.lookup[k].pc # "done" THEN w
  ELSE LET remoteRelease ==
             toRelease(w.lookup["app"].release, w.lookup["system"].release)
       IN IF w.request.skipRollout
          THEN [w EXCEPT !.request.pc = "done",
                         !.request.remoteRelease = remoteRelease,
                         !.request.out = Json(remoteRelease)]
          ELSE [w EXCEPT !.request.pc = "upsertApp",
                         !.request.remoteRelease = remoteRelease]

\* Join with the bypass taken for the prerelease channel only.
JoinPrereleaseOnly(w, first) ==
  IF ~(w.request.op = "Retrieve" /\ w.request.pc = "lookup") THEN w
  ELSE IF w.lookup[first].pc = "failed"
  THEN [w EXCEPT !.request.pc = "done",
                 !.request.out = lookupError(w.lookup[first].error,
                                            w.lookup[first].message)]
  ELSE IF \E k \in Kinds : w.lookup[k].pc # "done" THEN w
  ELSE LET remoteRelease ==
             toRelease(w.lookup["app"].release, w.lookup["system"].release)
       IN IF w.request.query.prerelease
          THEN [w EXCEPT !.request.pc = "done",
                         !.request.remoteRelease = remoteRelease,
                         !.request.out = Json(remoteRelease)]
          ELSE [w EXCEPT !.request.pc = "upsertApp",
                         !.request.remoteRelease = remoteRelease]

\* Lines 319-324 and 376-391: Promise.all settles.  It rejects as soon as one
\* lookup has failed (`first`, when both have); it resolves once both are done.
Join(w, first) ==
  LET remoteRelease == toRelease(w.lookup["app"].release, w.lookup["system"].release)
  IN IF ~(w.request.op = "Retrieve" /\ w.request.pc = "lookup") THEN w
     ELSE IF w.lookup[first].pc = "failed"
     THEN [w EXCEPT !.request.pc = "done",
                    !.request.out = lookupError(w.lookup[first].error,
                                            w.lookup[first].message)]
     ELSE IF \E k \in Kinds : w.lookup[k].pc # "done" THEN w
     ELSE IF w.request.query.prerelease \/ w.request.skipRollout
     THEN [w EXCEPT !.request.pc = "done",
                    !.request.remoteRelease = remoteRelease,
                    !.request.out = Json(remoteRelease)]
     ELSE [w EXCEPT !.request.pc = "upsertApp",
                    !.request.remoteRelease = remoteRelease]

\* The app upsert writing its create data whether or not the row exists.
UpsertAppOverwrite(w) ==
  LET remoteRelease == w.request.remoteRelease
      create == [version |-> remoteRelease.appVersion, rolloutPercentage |-> 10,
                 url |-> remoteRelease.appUrl, type |-> "app",
                 hash |-> remoteRelease.appHash]
  IN IF w.request.pc # "upsertApp" THEN w
     ELSE [w EXCEPT !.db = prismaUpsertOverwrite(@, create),
                    !.request.pc = "upsertSystem",
                    !.request.latestApp =
                      [version |-> create.version, url |-> create.url,
                       rolloutPercentage |-> create.rolloutPercentage,
                       hash |-> create.hash],
                    !.request.dbOps = @ + 1]

\* The app upsert creating its row fully rolled out.
UpsertAppFullRollout(w) ==
  LET remoteRelease == w.request.remoteRelease
      create == [version |-> remoteRelease.appVersion, rolloutPercentage |-> 100,
                 url |-> remoteRelease.appUrl, type |-> "app",
                 hash |-> remoteRelease.appHash]
  IN IF w.request.pc # "upsertApp" THEN w
     ELSE [w EXCEPT !.db = prismaUpsert(@, create),
                    !.request.pc = "upsertSystem",
                    !.request.latestApp = prismaUpsertResult(w.db, create),
                    !.request.dbOps = @ + 1]

\* Lines 394-405
UpsertApp(w) ==
  LET remoteRelease == w.request.remoteRelease
      create == [version |-> remoteRelease.appVersion, rolloutPercentage |-> 10,
                 url |-> remoteRelease.appUrl, type |-> "app",
                 hash |-> remoteRelease.appHash]
  IN IF w.request.pc # "upsertApp" THEN w
     ELSE [w EXCEPT !.db = prismaUpsert(@, create),
                    !.request.pc = "upsertSystem",
                    !.request.latestApp = prismaUpsertResult(w.db, create),
                    !.request.dbOps = @ + 1]

\* Lines 408-428
UpsertSystem(w) ==
  LET remoteRelease == w.request.remoteRelease
      create == [version |-> remoteRelease.systemVersion, rolloutPercentage |-> 10,
                 url |-> remoteRelease.systemUrl, type |-> "system",
                 hash |-> remoteRelease.systemHash]
      latestSystemRelease == prismaUpsertResult(w.db, create)
  IN IF w.request.pc # "upsertSystem" THEN w
     ELSE IF w.request.query.forceUpdate
     THEN [w EXCEPT !.db = prismaUpsert(@, create),
                    !.request.pc = "done",
                    !.request.latestSystem = latestSystemRelease,
                    !.request.dbOps = @ + 1,
                    !.request.out = Json(toRelease(w.request.latestApp,
                                                   latestSystemRelease))]
     ELSE [w EXCEPT !.db = prismaUpsert(@, create),
                    !.request.pc = "defaultApp",
                    !.request.latestSystem = latestSystemRelease,
                    !.request.dbOps = @ + 1]

\* The read of the default app release undoing the request's upserts when it
\* finds none, as one transaction around lines 394-431 would.
DefaultAppRollingBack(w) ==
  LET defaultAppRelease == defaultReleaseOf(prismaFindRolledOut(w.db, "app"))
      remoteRelease == w.request.remoteRelease
  IN IF w.request.pc # "defaultApp" THEN w
     ELSE IF defaultAppRelease = Null
     THEN [w EXCEPT !.db = {row \in @ :
                              ~(/\ row.rolloutPercentage = 10
                                /\ \/ row.type = "app"
                                      /\ row.version = remoteRelease.appVersion
                                   \/ row.type = "system"
                                      /\ row.version = remoteRelease.systemVersion)},
                    !.request.pc = "done", !.request.dbOps = @ + 1,
                    !.request.out = Throw("InternalServerError",
                                          "No default release found")]
     ELSE [w EXCEPT !.request.pc = "defaultSystem", !.request.dbOps = @ + 1,
                    !.request.defaultApp = defaultAppRelease]

\* Line 430
DefaultApp(w) ==
  LET defaultAppRelease == defaultReleaseOf(prismaFindRolledOut(w.db, "app"))
  IN IF w.request.pc # "defaultApp" THEN w
     ELSE IF defaultAppRelease = Null
     THEN [w EXCEPT !.request.pc = "done", !.request.dbOps = @ + 1,
                    !.request.out = Throw("InternalServerError",
                                          "No default release found")]
     ELSE [w EXCEPT !.request.pc = "defaultSystem", !.request.dbOps = @ + 1,
                    !.request.defaultApp = defaultAppRelease]

\* Lines 431-453
DefaultSystem(w) ==
  LET defaultSystemRelease == defaultReleaseOf(prismaFindRolledOut(w.db, "system"))
  IN IF w.request.pc # "defaultSystem" THEN w
     ELSE IF defaultSystemRelease = Null
     THEN [w EXCEPT !.request.pc = "done", !.request.dbOps = @ + 1,
                    !.request.out = Throw("InternalServerError",
                                          "No default release found")]
     ELSE [w EXCEPT !.request.pc = "done", !.request.dbOps = @ + 1,
                    !.request.defaultSystem = defaultSystemRelease,
                    !.request.out = Json(gatedRelease(w.request.defaultApp,
                                                      defaultSystemRelease,
                                                      w.request.latestApp,
                                                      w.request.latestSystem,
                                                      w.request.query.deviceId))]

\* Lines 394-431: the store call the handler is waiting for rejects; nothing
\* in Retrieve catches it.
StoreFails(w) ==
  IF /\ w.request.op = "Retrieve"
     /\ w.request.pc \in {"upsertApp", "upsertSystem", "defaultApp", "defaultSystem"}
  THEN [w EXCEPT !.request.pc = "done", !.request.dbOps = @ + 1,
                 !.request.out = Throw("PrismaClientKnownRequestError",
                                       "Can't reach database server")]
  ELSE w

\* getLatestVersion of kind k from its first await to its end, started in each
\* world of `worlds`: the worlds it may end in.  Each remote call either answers
\* or fails.
RunLookup(worlds, k) ==
  LET Await(ws) == ws \cup {S3Fails(w, k) : w \in ws}
      listed == {ListVersions(w, k) : w \in Await(worlds)}
      probed == {ProbeSkus(w, k) : w \in Await(listed)}
      headed == {HeadObject(w, k) : w \in Await(probed)}
  IN {GetHash(w, k) : w \in Await(headed)}

\* The whole handler, from the query to the response or the error, with nothing
\* else running in between: the worlds it may end in.
RunRetrieve(w, raw) ==
  LET looked == RunLookup(RunLookup({StartRetrieve(w, raw)}, "app"), "system")
      Await(ws) == ws \cup {StoreFails(x) : x \in ws}
      joined == {Join(x, first) : x \in looked, first \in Kinds}
      latestApp == {UpsertApp(x) : x \in Await(joined)}
      latestSystem == {UpsertSystem(x) : x \in Await(latestApp)}
      defaultApp == {DefaultApp(x) : x \in Await(latestSystem)}
      ended == {DefaultSystem(x) : x \in Await(defaultApp)}
  IN {x \in ended : x.request.pc = "done"}

-----------------------------------------------------------------------------
(* RetrieveLatestApp and RetrieveLatestSystemRecovery (cachedRedirect) *)

Endpoints == {"RetrieveLatestApp", "RetrieveLatestSystemRecovery"}

\* The first argument of releaseCacheKey, the folder listed and the artifact
\* of each endpoint.
EndpointName(op) == IF op = "RetrieveLatestApp" THEN "app" ELSE "system-recovery"
EndpointKind(op) == IF op = "RetrieveLatestApp" THEN "app" ELSE "system"
EndpointArtifact(op) == IF op = "RetrieveLatestApp" THEN "jetkvm_app" ELSE "update.img"

Redirect(location) == [kind |-> "redirect", status |-> 302, location |-> location]

\* cachedRedirect, lines 460-465, and the callback up to its listing.
StartRedirect(w, op, raw) ==
  LET query == latestQuerySchema(raw)
      cacheKey == releaseCacheKey(EndpointName(op), query)
      started == [IdleRequest EXCEPT !.op = op, !.query = query]
  IN IF w.request.pc # "idle" THEN w
     ELSE IF CacheHas(w.redirectCache, cacheKey)
     THEN [w EXCEPT !.request =
             [started EXCEPT !.pc = "done",
                             !.out = Redirect(CacheGet(w.redirectCache, cacheKey))]]
     ELSE [w EXCEPT
             !.request = [started EXCEPT !.pc = "callback"],
             !.lookup[EndpointKind(op)] =
               [IdleLookup EXCEPT !.pc = "list",
                                  !.includePrerelease = query.prerelease,
                                  !.maxSatisfying = Star,
                                  !.sku = query.sku,
                                  !.artifact = EndpointArtifact(op)]]

\* verifyHash accepting every artifact.
verifyHashSkipped(w, path) == TRUE

\* verifyHash, helpers.ts: the SHA-256 of the artifact's bytes is the trimmed
\* text of its digest file (`corrupt`: the artifacts for which it is not).
verifyHash(w, path) == path \notin w.corrupt

\* Lines 516-543 and 573-600, then 466-469: both objects are fetched and
\* compared; the url is cached and the client redirected.
FetchAndVerify(w) ==
  LET k == EndpointKind(w.request.op)
      call == w.lookup[k]
      cacheKey == releaseCacheKey(EndpointName(w.request.op), w.request.query)
      result == UrlOf(call.path)
  IN IF ~(w.request.op \in Endpoints /\ w.request.pc = "callback" /\ call.pc = "hash")
     THEN w
     ELSE IF ~s3ObjectExists(w, call.path)
     THEN [w EXCEPT !.lookup[k] = Failed(call, "S3ServiceException", "NoSuchKey")]
     ELSE IF ~verifyHash(w, call.path)
     THEN [w EXCEPT !.lookup[k] = Failed(call, "InternalServerError",
                                        "hash does not match")]
     ELSE [w EXCEPT !.lookup[k] = [call EXCEPT !.pc = "done"],
                    !.redirectCache = CacheSet(@, cacheKey, result),
                    !.request.pc = "done",
                    !.request.out = Redirect(result)]

\* The callback threw: the error leaves the handler as it is.
RedirectFails(w) ==
  LET call == w.lookup[EndpointKind(w.request.op)]
  IN IF w.request.op \in Endpoints /\ w.request.pc = "callback" /\ call.pc = "failed"
     THEN [w EXCEPT !.request.pc = "done", !.request.out = Throw(call.error, call.message)]
     ELSE w

\* A redirect handler from the query to the redirect or the error, with nothing
\* else running in between: the worlds it may end in.
RunRedirect(w, op, raw) ==
  LET k == EndpointKind(op)
      Await(ws) == ws \cup {S3Fails(x, k) : x \in ws}
      listed == {ListVersions(x, k) : x \in Await({StartRedirect(w, op, raw)})}
      probed == {ProbeSkus(x, k) : x \in Await(listed)}
      headed == {HeadObject(x, k) : x \in Await(probed)}
  IN {RedirectFails(y) : y \in {FetchAndVerify(x) : x \in Await(headed)}}

-----------------------------------------------------------------------------
(* Completion *)

\* The response (or the error) has been delivered and both lookups have settled:
\* nothing of the request is left.
Finish(w) ==
  IF /\ w.request.pc = "done"
     /\ \A k \in Kinds : w.lookup[k].pc \in {"none", "done", "failed"}
  THEN [w EXCEPT !.request = [IdleRequest EXCEPT !.pc = "finished"],
                 !.lookup = [k \in Kinds |-> IdleLookup]]
  ELSE w

-----------------------------------------------------------------------------
(* The environment *)

Percentages == {0, 10, 100}

\* An operator sets the rollout percentage of a row that requests have created
\* (the update branch of setRollout).
SetRollout(version, type, percentage) ==
  /\ nOp < MaxOperatorOps
  /\ RowExists(db, version, type)
  /\ nOp' = nOp + 1
  /\ db' = {IF row.version = version /\ row.type = type
            THEN [row EXCEPT !.rolloutPercentage = percentage] ELSE row : row \in db}
  /\ opSet' = {o \in opSet : ~(o.version = version /\ o.type = type)}
                \cup {[version |-> version, type |-> type, value |-> percentage]}
  /\ UNCHANGED <<folders, objects, corrupt, releaseCache, redirectCache, req, lk, nPub,
               fnCall, oidcVars>>

\* A version is uploaded under "<kind>/" for every kind of `kinds`: its folder
\* and, for a semver name, its artifacts with their digest files; `damaged`: the
\* artifacts do not hash to their digest files.
Publish(kinds, name, layout, damaged) ==
  LET uploads == IF semverValid(name)
                 THEN UNION {Uploads(k, name, layout) : k \in kinds} ELSE {}
  IN /\ nPub < MaxPublishes
     /\ kinds # {}
     /\ \A k \in kinds : name \notin folders[k]
     /\ nPub' = nPub + 1
     /\ folders' = [k \in Kinds |-> IF k \in kinds THEN folders[k] \cup {name}
                                    ELSE folders[k]]
     /\ objects' = objects \cup uploads
     /\ corrupt' = IF damaged THEN corrupt \cup uploads ELSE corrupt
     /\ UNCHANGED <<releaseCache, redirectCache, db, req, lk, opSet, nOp, fnCall, oidcVars>>

\* A version is removed from under "<kind>/" for every kind of `kinds`: its
\* folder and its objects are gone from remote storage.
Unpublish(kinds, name) ==
  /\ kinds # {}
  /\ \A k \in kinds : name \in folders[k]
  /\ folders' = [k \in Kinds |-> IF k \in kinds THEN folders[k] \ {name}
                                 ELSE folders[k]]
  /\ objects' = {o \in objects : ~(o.prefix \in kinds /\ o.version = name)}
  /\ corrupt' = {o \in corrupt : ~(o.prefix \in kinds /\ o.version = name)}
  /\ UNCHANGED <<releaseCache, redirectCache, db, req, lk, opSet, nPub, nOp, fnCall, oidcVars>>

\* clearCaches(), lines 110-113; also what the ttl does to the entries once
\* 5 minutes have passed.
clearCaches ==
  /\ releaseCache # {} \/ redirectCache # {}
  /\ releaseCache' = {}
  /\ redirectCache' = {}
  /\ UNCHANGED <<folders, objects, corrupt, db, req, lk, opSet, nPub, nOp, fnCall, oidcVars>>

-----------------------------------------------------------------------------
(* Scheduling *)

\* No request is in flight.
Quiet ==
  \A r \in Slots : /\ req[r].pc \in {"idle", "finished"}
                   /\ \A k \in Kinds : lk[<<r, k>>].pc = "none"

\* Slots are taken in order.
NextSlot(r) ==
  /\ req[r].pc = "idle"
  /\ \A earlier \in 1..(r - 1) : req[earlier].pc # "idle"

\* The handler of slot r takes the step that leads to world w.
Takes(r, w) ==
  /\ w # World(r)
  /\ Install(r, w)
  /\ UNCHANGED <<opSet, nPub, nOp, fnCall, oidcVars>>

\* A redirect endpoint is served from the query to the redirect.
RetrieveLatest(r, op, raw) ==
  /\ Quiet
  /\ NextSlot(r)
  /\ \E w \in RunRedirect(World(r), op, raw) : Takes(r, w)

\* Retrieve is served from the query to the response.
Retrieve(r, raw) ==
  /\ Quiet
  /\ NextSlot(r)
  /\ \E w \in RunRetrieve(World(r), raw) : Takes(r, w)

\* The response has been delivered.
Respond(r) == Takes(r, Finish(World(r)))

\* Handlers run to completion: requests are served one at a time, and rollout
\* changes, publishes and cache expiry fall between them.
Next ==
  \/ \E r \in Slots, raw \in RolloutQueries : Retrieve(r, raw)
  \/ \E r \in Slots : Respond(r)
  \/ \E row \in db, p \in Percentages :
       Quiet /\ SetRollout(row.version, row.type, p)
  \/ \E kinds \in SUBSET Kinds, name \in {V110, V200beta} :
       Quiet /\ Publish(kinds, name, LegacyLayout, FALSE)
  \/ Quiet /\ clearCaches

Spec == Init /\ [][Next]_vars

\* The same scheduling, with devices of both SKUs, versions published in every
\* layout and the redirect endpoints.
SkuNext ==
  \/ \E r \in Slots, raw \in SkuQueries : Retrieve(r, raw)
  \/ \E r \in Slots, op \in Endpoints, raw \in RawLatestQueries :
       RetrieveLatest(r, op, raw)
  \/ \E r \in Slots : Respond(r)
  \/ \E row \in db, p \in Percentages :
       Quiet /\ SetRollout(row.version, row.type, p)
  \/ \E kinds \in SUBSET Kinds, layout \in Layouts, damaged \in BOOLEAN :
       Quiet /\ Publish(kinds, V110, layout, damaged)
  \/ Quiet /\ clearCaches

SkuSpec == Init /\ [][SkuNext]_vars

\* Requests run concurrently: a handler takes one step per await, and the
\* steps of the requests in flight, operator rollout changes and publishes
\* interleave freely.
ConcNext ==
  \/ \E r \in Slots, raw \in ConcQueries :
       NextSlot(r) /\ Takes(r, StartRetrieve(World(r), raw))
  \/ \E r \in Slots, k \in Kinds : Takes(r, ListVersions(World(r), k))
  \/ \E r \in Slots, k \in Kinds : Takes(r, ProbeSkus(World(r), k))
  \/ \E r \in Slots, k \in Kinds : Takes(r, HeadObject(World(r), k))
  \/ \E r \in Slots, k \in Kinds : Takes(r, GetHash(World(r), k))
  \/ \E r \in Slots, k \in Kinds : Takes(r, S3Fails(World(r), k))
  \/ \E r \in Slots, first \in Kinds : Takes(r, Join(World(r), first))
  \/ \E r \in Slots : Takes(r, UpsertApp(World(r)))
  \/ \E r \in Slots : Takes(r, UpsertSystem(World(r)))
  \/ \E r \in Slots : Takes(r, DefaultApp(World(r)))
  \/ \E r \in Slots : Takes(r, DefaultSystem(World(r)))
  \/ \E r \in Slots : Takes(r, StoreFails(World(r)))
  \/ \E r \in Slots : Respond(r)
  \/ \E k \in Kinds, p \in Percentages : SetRollout(V110, k, p)
  \/ Publish(Kinds, V110, [skus |-> {DEFAULT_SKU}, legacy |-> FALSE], FALSE)

ConcSpec == Init /\ [][ConcNext]_vars

\* An await of request r settles: the collaborator call returns or fails, and
\* the handler runs up to its next await.
HandlerStep(r) ==
  \/ \E k \in Kinds : Takes(r, ListVersions(World(r), k))
  \/ \E k \in Kinds : Takes(r, ProbeSkus(World(r), k))
  \/ \E k \in Kinds : Takes(r, HeadObject(World(r), k))
  \/ \E k \in Kinds : Takes(r, GetHash(World(r), k))
  \/ \E k \in Kinds : Takes(r, S3Fails(World(r), k))
  \/ \E first \in Kinds : Takes(r, Join(World(r), first))
  \/ Takes(r, UpsertApp(World(r)))
  \/ Takes(r, UpsertSystem(World(r)))
  \/ Takes(r, DefaultApp(World(r)))
  \/ Takes(r, DefaultSystem(World(r)))
  \/ Takes(r, StoreFails(World(r)))
  \/ Takes(r, FetchAndVerify(World(r)))
  \/ Takes(r, RedirectFails(World(r)))
  \/ Respond(r)

\* The redirect queries of the termination scenarios: stable channel, either SKU.
LiveLatestQueries == {q \in RawLatestQueries : q.prerelease = Undefined}

\* Concurrent Retrieve and redirect requests, a step per await.
LiveNext ==
  \/ \E r \in Slots, raw \in LiveQueries :
       NextSlot(r) /\ Takes(r, StartRetrieve(World(r), raw))
  \/ \E r \in Slots, op \in Endpoints, raw \in LiveLatestQueries :
       NextSlot(r) /\ Takes(r, StartRedirect(World(r), op, raw))
  \/ \E r \in Slots : HandlerStep(r)

\* Every collaborator call eventually returns or fails, and the event loop
\* then resumes the handler that awaits it.
LiveSpec ==
  LiveInit /\ [][LiveNext]_vars /\ \A r \in Slots : WF_vars(HandlerStep(r))

\* Requests served one at a time over an empty release table, with publishes
\* and cache expiry between them and no operator.
FreshNext ==
  \/ \E r \in Slots, raw \in RolloutQueries : Retrieve(r, raw)
  \/ \E r \in Slots : Respond(r)
  \/ \E kinds \in SUBSET Kinds, name \in {V110, V200beta} :
       Quiet /\ Publish(kinds, name, LegacyLayout, FALSE)
  \/ Quiet /\ clearCaches

FreshSpec == FreshInit /\ [][FreshNext]_vars

\* Requests served one at a time, with operator rollout changes, publishes,
\* removals from remote storage and cache expiry between them.
RemovalNext ==
  \/ \E r \in Slots, raw \in UnpinnedQueries : Retrieve(r, raw)
  \/ \E r \in Slots : Respond(r)
  \/ \E row \in db, p \in Percentages :
       Quiet /\ SetRollout(row.version, row.type, p)
  \/ \E kinds \in SUBSET Kinds :
       Quiet /\ Publish(kinds, V200beta, LegacyLayout, FALSE)
  \/ \E kinds \in SUBSET Kinds :
       Quiet /\ Unpublish(kinds, V110)
  \/ Quiet /\ clearCaches

RemovalSpec == PromotedInit /\ [][RemovalNext]_vars

\* Requests served one at a time, with exact pins and SKU names of any form.
KeyNext ==
  \/ \E r \in Slots, raw \in KeyQueries : Retrieve(r, raw)
  \/ \E r \in Slots, op \in Endpoints, raw \in KeyLatestQueries :
       RetrieveLatest(r, op, raw)
  \/ \E r \in Slots : Respond(r)

KeySpec == KeyInit /\ [][KeyNext]_vars

\* Requests served one at a time over each initial listing of remote storage.
LookupNext ==
  \/ \E r \in Slots, raw \in LookupQueries : Retrieve(r, raw)
  \/ \E r \in Slots, op \in Endpoints, raw \in RawLatestQueries :
       RetrieveLatest(r, op, raw)
  \/ \E r \in Slots : Respond(r)

LookupSpec == LookupInit /\ [][LookupNext]_vars

\* isDeviceEligibleForLatestRelease is applied to a percentage and a device.
CallEligible(rolloutPercentage, deviceId) ==
  /\ fnCall.fn = "none"
  /\ fnCall' = [fn |-> "isDeviceEligibleForLatestRelease",
                rolloutPercentage |-> rolloutPercentage,
                deviceId |-> deviceId,
                result |-> isDeviceEligibleForLatestRelease(rolloutPercentage,
                                                            deviceId)]
  /\ UNCHANGED <<folders, objects, corrupt, releaseCache, redirectCache, db, req, lk,
                 opSet, nPub, nOp, oidcVars>>

\* getDeviceRolloutBucket is applied to a device identifier.
CallBucket(deviceId) ==
  /\ fnCall.fn = "none"
  /\ fnCall' = [fn |-> "getDeviceRolloutBucket",
                deviceId |-> deviceId,
                result |-> getDeviceRolloutBucket(deviceId)]
  /\ UNCHANGED <<folders, objects, corrupt, releaseCache, redirectCache, db, req, lk,
                 opSet, nPub, nOp, oidcVars>>

\* A pure function is applied once, to any input of its bounded domain.
PureNext ==
  \/ \E rolloutPercentage \in 0..MaxPercentage, deviceId \in BucketDevices :
       CallEligible(rolloutPercentage, deviceId)
  \/ \E deviceId \in BucketDevices \cup Devices : CallBucket(deviceId)

PureSpec == Init /\ [][PureNext]_vars

-----------------------------------------------------------------------------
(* auth.ts: the authenticated middleware *)

GOOGLE_ISSUER == "https://accounts.google.com"
OTHER_ISSUER == "https://login.example.com"

\* The clock readings of `new Date()`, in milliseconds, and the exp claims, in
\* seconds: 0 is a falsy exp, 1 expires between the readings 1000 and 1001.
MaxClock == 2001
Clocks == {999, 1000, 1001, MaxClock}
Expiries == {0, 1, 2}

\* The payloads a token may carry: `claims` are the ones present; a present
\* sub may still be the empty string.
Payloads ==
  [claims : SUBSET {"sub", "iss", "exp"}, sub : {"", "google-a"},
   iss : {GOOGLE_ISSUER, OTHER_ISSUER}, exp : Expiries]

\* An ID token: what jose.jwtVerify says of it and the payload it carries.
IdTokens == [verifies : BOOLEAN, payload : Payloads]

\* req.session as the middleware finds it: none, one without an ID token, or
\* one holding a token.
Sessions == {Null, [id_token |-> Null]} \cup {[id_token |-> t] : t \in IdTokens}

\* verifyToken, lines 13-22: the payload if jwtVerify accepts, null otherwise.
verifyToken(idToken) == IF idToken.verifies THEN idToken.payload ELSE Null

\* payload.<claim> is truthy: present, and neither "" nor 0.
Truthy(payload, claim) ==
  /\ claim \in payload.claims
  /\ CASE claim = "sub" -> payload.sub # ""
       [] claim = "iss" -> payload.iss # ""
       [] claim = "exp" -> payload.exp # 0

\* What became of a call of the middleware.
Rejected(error, message) ==
  [next |-> FALSE, error |-> error, message |-> message, subject |-> Undefined,
   issuer |-> Undefined]
Passed(sub, iss) ==
  [next |-> TRUE, error |-> Undefined, message |-> Undefined, subject |-> sub,
   issuer |-> iss]

\* The middleware without its expiry check.
authenticatedIgnoringExpiry(session, now) ==
  IF session = Null THEN Rejected("UnauthorizedError", "No session found")
  ELSE IF session.id_token = Null
  THEN Rejected("UnauthorizedError", "No ID token found in session")
  ELSE LET payload == verifyToken(session.id_token)
       IN IF payload = Null THEN Rejected("UnauthorizedError", "Invalid ID token")
          ELSE IF ~Truthy(payload, "sub") \/ ~Truthy(payload, "iss")
                    \/ ~Truthy(payload, "exp")
          THEN Rejected("UnauthorizedError", "Missing claim in token")
          ELSE IF payload.iss # GOOGLE_ISSUER
          THEN Rejected("BadRequestError", "Token is not from Google")
          ELSE Passed(payload.sub, payload.iss)

\* authenticated, lines 24-50, with `now` the reading of `new Date()` at line 39.
authenticated(session, now) ==
  IF session = Null THEN Rejected("UnauthorizedError", "No session found")
  ELSE IF session.id_token = Null
  THEN Rejected("UnauthorizedError", "No ID token found in session")
  ELSE LET payload == verifyToken(session.id_token)
       IN IF payload = Null THEN Rejected("UnauthorizedError", "Invalid ID token")
          ELSE IF ~Truthy(payload, "sub")
          THEN Rejected("UnauthorizedError", "Missing sub (subject) in token")
          ELSE IF ~Truthy(payload, "iss")
          THEN Rejected("UnauthorizedError", "Missing iss (issuer) in token")
          ELSE IF ~Truthy(payload, "exp")
          THEN Rejected("UnauthorizedError", "Missing exp (expiration) in token")
          ELSE IF payload.exp * 1000 < now
          THEN Rejected("UnauthorizedError", "ID token has expired")
          ELSE IF payload.iss # GOOGLE_ISSUER
          THEN Rejected("BadRequestError", "Token is not from Google")
          ELSE Passed(payload.sub, payload.iss)

\* The middleware is applied to a request.
CallAuthenticated(session, now) ==
  /\ fnCall.fn = "none"
  /\ fnCall' = [fn |-> "authenticated", session |-> session, now |-> now,
                result |-> authenticated(session, now)]
  /\ UNCHANGED <<folders, objects, corrupt, releaseCache, redirectCache, db, req, lk,
                 opSet, nPub, nOp, oidcVars>>

\* The middleware is applied once, to any session at any clock reading.
AuthNext == \E session \in Sessions, now \in Clocks : CallAuthenticated(session, now)

AuthSpec == Init /\ [][AuthNext]_vars

-----------------------------------------------------------------------------
(* oidc.ts: the Google sign-in and its Callback, one step per database await *)

\* Every variable of the release service.
releaseVars ==
  <<folders, objects, corrupt, releaseCache, redirectCache, db, req, lk, opSet,
    nPub, nOp, fnCall>>

\* The row of prisma.device with this id, or Null.
DeviceRow(rows, id) ==
  IF \E d \in rows : d.id = id THEN CHOOSE d \in rows : d.id = id ELSE Null

\* The nested upsert handing an existing device over to the updating user.
nestedUpsertTakingOver(rows, subject, deviceId, tempToken, tempTokenExpiresAt, scoped) ==
  [error |-> Undefined,
   rows |-> {d \in rows : d.id # deviceId}
              \cup {[id |-> deviceId, user |-> subject, tempToken |-> tempToken,
                     tempTokenExpiresAt |-> tempTokenExpiresAt]}]

\* Lines 121-132: prisma.user.update with device.upsert {create, where, update}.
\* A device of this id related to the user gets the new token; if no device
\* has the id, one is created for the user.  A device of this id related to
\* another user is either out of the nested look-up's sight (`scoped`), so
\* that the create runs into the unique id, or is found and gets the new
\* token; the update part never writes the owner.
nestedUpsert(rows, subject, deviceId, tempToken, tempTokenExpiresAt, scoped) ==
  LET found == DeviceRow(rows, deviceId)
      updated == {IF d.id = deviceId
                  THEN [d EXCEPT !.tempToken = tempToken,
                                 !.tempTokenExpiresAt = tempTokenExpiresAt]
                  ELSE d : d \in rows}
  IN IF found = Null
     THEN [error |-> Undefined,
           rows |-> rows \cup {[id |-> deviceId, user |-> subject,
                                tempToken |-> tempToken,
                                tempTokenExpiresAt |-> tempTokenExpiresAt]}]
     ELSE IF found.user = subject \/ ~scoped
     THEN [error |-> Undefined, rows |-> updated]
     ELSE [error |-> "P2002", rows |-> rows]

\* Google, lines 19-47: the session remembers the device to adopt and the page
\* to return to, and the browser is sent to the authorization server.
Google(c, deviceId, returnTo) ==
  /\ cb[c].pc = "idle"
  /\ cb' = [cb EXCEPT ![c].pc = "authorize",
                      ![c].session = [code_verifier |-> "code_verifier",
                                      deviceId |-> deviceId, returnTo |-> returnTo,
                                      id_token |-> Undefined]]
  /\ UNCHANGED <<releaseVars, user, device>>

\* Callback, lines 50-62, with authorizationCodeGrant rejecting the response.
GrantRejected(c) ==
  /\ cb[c].pc = "authorize"
  /\ cb' = [cb EXCEPT ![c].pc = "done",
                      ![c].deviceId = cb[c].session.deviceId,
                      ![c].returnTo = IF cb[c].session.returnTo = Undefined
                                      THEN DevicesPage ELSE cb[c].session.returnTo,
                      ![c].out = Throw("ResponseBodyError", "authorizationCodeGrant")]
  /\ UNCHANGED <<releaseVars, user, device>>

\* Callback, lines 50-76: the locals are read from the session, the code is
\* exchanged for the tokens of `subject`, the session keeps the ID token and
\* drops the rest; without an ID token the handler throws.
TokensGranted(c, subject, hasIdToken) ==
  /\ cb[c].pc = "authorize"
  /\ LET id_token == IF hasIdToken THEN "id_token-" \o subject ELSE Undefined
         granted == [cb[c] EXCEPT
                       !.deviceId = cb[c].session.deviceId,
                       !.returnTo = IF cb[c].session.returnTo = Undefined
                                    THEN DevicesPage ELSE cb[c].session.returnTo,
                       !.subject = subject,
                       !.id_token = id_token,
                       !.session = [code_verifier |-> Undefined, deviceId |-> Undefined,
                                    returnTo |-> Undefined, id_token |-> id_token]]
     IN cb' = [cb EXCEPT ![c] =
                 IF hasIdToken THEN [granted EXCEPT !.pc = "upsertUser"]
                 ELSE [granted EXCEPT !.pc = "done",
                                      !.out = Throw("UnauthorizedError", "")]]
  /\ UNCHANGED <<releaseVars, user, device>>

\* Lines 79-94 and 143: the user row is upserted; without a device in the
\* session the browser goes to the return page.
UpsertUser(c) ==
  /\ cb[c].pc = "upsertUser"
  /\ user' = user \cup {cb[c].subject}
  /\ cb' = [cb EXCEPT ![c] =
              IF cb[c].deviceId # Undefined THEN [@ EXCEPT !.pc = "findDevice"]
              ELSE [@ EXCEPT !.pc = "done", !.out = Redirect(Page(cb[c].returnTo))]]
  /\ UNCHANGED <<releaseVars, device>>

\* Lines 95-119: findUnique answers; a device adopted by another user sends
\* the browser to the already-adopted page, otherwise a temp token is drawn.
FindDevice(c) ==
  /\ cb[c].pc = "findDevice"
  /\ LET deviceAdopted == DeviceRow(device, cb[c].deviceId)
         isAdoptedByCurrentUser ==
           deviceAdopted # Null /\ deviceAdopted.user = cb[c].subject
         isAdoptedByOther == deviceAdopted # Null /\ ~isAdoptedByCurrentUser
     IN cb' = [cb EXCEPT ![c] =
                 IF isAdoptedByOther
                 THEN [@ EXCEPT !.pc = "done", !.deviceAdopted = deviceAdopted,
                                !.out = Redirect(Page(AlreadyAdoptedPage))]
                 ELSE [@ EXCEPT !.pc = "updateUser", !.deviceAdopted = deviceAdopted,
                                !.tempToken = "tempToken-" \o ToString(c),
                                !.tempTokenExpiresAt = "now+5min"]]
  /\ UNCHANGED <<releaseVars, user, device>>

\* Lines 121-141: the device is upserted under the user and the browser is
\* sent back with the temp token; a rejected update leaves the handler.
UpdateUser(c, scoped) ==
  /\ cb[c].pc = "updateUser"
  /\ LET result == nestedUpsert(device, cb[c].subject, cb[c].deviceId, cb[c].tempToken,
                                cb[c].tempTokenExpiresAt, scoped)
     IN /\ device' = result.rows
        /\ cb' = [cb EXCEPT ![c] =
                    IF result.error = Undefined
                    THEN [@ EXCEPT !.pc = "done",
                                   !.out = Redirect(AppUrl(cb[c].returnTo,
                                                           cb[c].tempToken,
                                                           cb[c].deviceId,
                                                           cb[c].id_token))]
                    ELSE [@ EXCEPT !.pc = "done",
                                   !.out = Throw("PrismaClientKnownRequestError",
                                                 result.error)]]
  /\ UNCHANGED <<releaseVars, user>>

\* Sign-ins run concurrently: a callback takes one step per await.
OidcNext ==
  \/ \E c \in Logins, deviceId \in AdoptedDevices \cup {Undefined},
        returnTo \in ReturnPages \cup {Undefined} : Google(c, deviceId, returnTo)
  \/ \E c \in Logins : GrantRejected(c)
  \/ \E c \in Logins, subject \in Subjects, hasIdToken \in BOOLEAN :
       TokensGranted(c, subject, hasIdToken)
  \/ \E c \in Logins : UpsertUser(c)
  \/ \E c \in Logins : FindDevice(c)
  \/ \E c \in Logins, scoped \in BOOLEAN : UpdateUser(c, scoped)

OidcSpec == Init /\ [][OidcNext]_vars

-----------------------------------------------------------------------------
(* Properties *)

\* Slot r holds a Retrieve request that was answered with a release.
Answered(r) ==
  /\ req[r].pc = "done"
  /\ req[r].op = "Retrieve"
  /\ req[r].out.kind = "json"

\* Retrieve of slot r runs in this step, from a parsed query to its end.
Serves(r) ==
  /\ req[r].pc = "idle"
  /\ req'[r].pc = "done"
  /\ req'[r].op = "Retrieve"
  /\ req'[r].query # Null

\* Answered(r) for a request that was neither pinned, nor on the prerelease
\* channel, nor forced.
Gated(r) ==
  /\ Answered(r)
  /\ ~req[r].query.prerelease
  /\ req[r].query.appVersion = Star /\ req[r].query.systemVersion = Star
  /\ ~req[r].query.forceUpdate

\* The response body carries, for kind k, the version, url and hash of `release`.
Carries(body, k, release) ==
  IF k = "app"
  THEN /\ body.appVersion = release.version
       /\ body.appUrl = release.url
       /\ body.appHash = release.hash
  ELSE /\ body.systemVersion = release.version
       /\ body.systemUrl = release.url
       /\ body.systemHash = release.hash

\* Version `v` of kind k has a skus/ folder in remote storage.
HasSkusFolder(k, v) == \E o \in objects : o.prefix = k /\ o.version = v /\ o.skus

\* What remote storage resolves to for (k, range, pre, sku): the entry cached
\* for these within its ttl, else the metadata of the maximum listed
\* semver name that satisfies the range.
RemoteResolved(k, range, pre, sku) ==
  LET v == semverMaxSatisfying({f \in folders[k] : semverValid(f)}, range, pre)
      path == IF HasSkusFolder(k, v) THEN SkuPath(k, v, sku, ArtifactOf(k))
              ELSE LegacyPath(k, v, ArtifactOf(k))
  IN IF \E e \in releaseCache : e.key = CacheKey(k, pre, range, sku)
     THEN (CHOOSE e \in releaseCache : e.key = CacheKey(k, pre, range, sku)).value
     ELSE [version |-> v, url |-> UrlOf(path), hash |-> HashOf(path)]

\* The range of kind k in a parsed query.
RangeOf(query, k) == IF k = "app" THEN query.appVersion ELSE query.systemVersion

\* The request served in this step touches the store in no way and, if it is
\* answered, carries what remote storage resolves to for its ranges.
Bypasses(r) ==
  /\ db' = db
  /\ req'[r].dbOps = 0
  /\ req'[r].out.kind = "json" =>
       \A k \in Kinds :
         Carries(req'[r].out.body, k,
                 RemoteResolved(k, RangeOf(req'[r].query, k),
                                req'[r].query.prerelease, req'[r].query.sku))

\* C4 (pin bypass): every Retrieve whose appVersion or systemVersion normalizes
\* to a range other than "*" returns exactly the remote-resolved metadata of
\* its ranges, performs no read and no write on the persisted store, and leaves
\* the store as it was.
C4_PinBypass ==
  [][\A r \in Slots :
       (/\ Serves(r)
        /\ \E k \in Kinds : RangeOf(req'[r].query, k) # Star) => Bypasses(r)]_vars

\* A pinned request of a device outside the rollout is answered with a version
\* that has no row in the store.
C4_Witness ==
  \E r \in Slots :
    /\ Answered(r)
    /\ req[r].query.appVersion = Caret1
    /\ ~req[r].query.prerelease
    /\ req[r].query.deviceId = "device-not-eligible-188"
    /\ req[r].out.body.appVersion = V110
    /\ ~RowExists(db, V110, "app")

\* C5 (prerelease bypass): every Retrieve with prerelease=true returns the
\* remote-resolved metadata and neither reads nor writes the persisted store:
\* no row is created or changed by it.
C5_PrereleaseBypass ==
  [][\A r \in Slots :
       (Serves(r) /\ req'[r].query.prerelease) => Bypasses(r)]_vars

\* An unpinned prerelease request is answered with a pre-release version that
\* has no row in the store.
C5_Witness ==
  \E r \in Slots :
    /\ Answered(r)
    /\ req[r].query.prerelease
    /\ req[r].query.appVersion = Star /\ req[r].query.systemVersion = Star
    /\ req[r].out.body.appVersion = V200beta
    /\ ~RowExists(db, V200beta, "app")

\* The rows the request in slot r would create: one per kind, at 10%, with the
\* version, url and hash it resolved.
FirstSightings(request) ==
  {[version |-> request.remoteRelease.appVersion, rolloutPercentage |-> 10,
    url |-> request.remoteRelease.appUrl, type |-> "app",
    hash |-> request.remoteRelease.appHash],
   [version |-> request.remoteRelease.systemVersion, rolloutPercentage |-> 10,
    url |-> request.remoteRelease.systemUrl, type |-> "system",
    hash |-> request.remoteRelease.systemHash]}

\* The upsert of the request for a kind has returned.
Upserted(request, k) ==
  IF k = "app" THEN request.latestApp # Null ELSE request.latestSystem # Null

\* C6 (create-if-absent upsert): on the non-bypass path of Retrieve, for each
\* resolved (version, type) a row is created at rolloutPercentage 10 if none
\* exists, and an existing row keeps its rolloutPercentage, url and hash,
\* whatever value an operator has set (for each upsert that returned).
C6_CreateIfAbsent ==
  [][\A r \in Slots :
       (/\ Serves(r)
        /\ req'[r].remoteRelease # Null
        /\ ~req'[r].query.prerelease
        /\ \A k \in Kinds : RangeOf(req'[r].query, k) = Star)
       => db' = db \cup {create \in FirstSightings(req'[r]) :
                           /\ Upserted(req'[r], create.type)
                           /\ ~RowExists(db, create.version, create.type)}]_vars

\* A request resolved 1.1.0 after an operator had set its app row to 0%, and
\* read the row back at 0%.
C6_Witness ==
  \E r \in Slots :
    /\ req[r].pc = "done" /\ req[r].op = "Retrieve"
    /\ req[r].latestApp # Null
    /\ req[r].latestApp.version = V110
    /\ req[r].latestApp.rolloutPercentage = 0
    /\ [version |-> V110, type |-> "app", value |-> 0] \in opSet

\* The version the request in slot r resolved for kind k.
ResolvedVersion(r, k) ==
  IF k = "app" THEN req[r].remoteRelease.appVersion
  ELSE req[r].remoteRelease.systemVersion

\* The persisted row of (version, type).
RowOf(version, type) == CHOOSE row \in db : row.version = version /\ row.type = type

\* The row of the highest version among the rows of a type at 100%.
DefaultRow(type) ==
  LET rolledOut == {row \in db : row.type = type /\ row.rolloutPercentage = 100}
  IN CHOOSE row \in rolledOut :
       \A other \in rolledOut : semverCompare(row.version, other.version) >= 0

\* C9 (rollout gating): on the non-bypass, non-forceUpdate path, for each kind
\* independently the response carries the latest persisted release if its
\* rolloutPercentage is 100 or bucket(deviceId) < rolloutPercentage, and the
\* default release otherwise.
C9_RolloutGating ==
  \A r \in Slots :
    Gated(r) =>
      \A k \in Kinds :
        LET latest == RowOf(ResolvedVersion(r, k), k)
        IN IF \/ latest.rolloutPercentage = 100
              \/ getDeviceRolloutBucket(req[r].query.deviceId) < latest.rolloutPercentage
           THEN Carries(req[r].out.body, k, latest)
           ELSE Carries(req[r].out.body, k, DefaultRow(k))

\* With 1.0.0 at 100% and 1.1.0 at 10%, the device of bucket 50 got 1.0.0.
C9_Witness ==
  \E r \in Slots :
    /\ Gated(r)
    /\ getDeviceRolloutBucket(req[r].query.deviceId) = 50
    /\ ResolvedVersion(r, "app") = V110
    /\ RowOf(V110, "app").rolloutPercentage = 10
    /\ req[r].out.body.appVersion = V100

\* The other kind.
Other(k) == IF k = "app" THEN "system" ELSE "app"

\* The run of the request in slot r from its reads of the default releases on,
\* had the latest row of kind k been at percentage p.
RerunWith(r, k, p) ==
  LET w == World(r)
      latest == IF k = "app" THEN w.request.latestApp ELSE w.request.latestSystem
      rows == {IF row.version = latest.version /\ row.type = k
               THEN [row EXCEPT !.rolloutPercentage = p] ELSE row : row \in w.db}
      request == IF k = "app"
                 THEN [w.request EXCEPT !.latestApp.rolloutPercentage = p]
                 ELSE [w.request EXCEPT !.latestSystem.rolloutPercentage = p]
  IN DefaultSystem(DefaultApp(
       [w EXCEPT !.db = rows,
                 !.request = [request EXCEPT !.pc = "defaultApp", !.out = Null]]))

\* The part of a response body that belongs to kind k.
PartOf(body, k) ==
  IF k = "app" THEN <<body.appVersion, body.appUrl, body.appHash>>
  ELSE <<body.systemVersion, body.systemUrl, body.systemHash>>

\* C10 (independence of app and system rollout): two runs of Retrieve that
\* differ only in the rolloutPercentage of the latest row of one kind return
\* the same version, url and hash for the other kind.
C10_Independence ==
  \A r \in Slots :
    Gated(r) =>
      \A k \in Kinds, p \in Percentages :
        LET other == RerunWith(r, k, p).request.out
        IN other.kind = "json" =>
             PartOf(other.body, Other(k)) = PartOf(req[r].out.body, Other(k))

\* A device received the latest app with the default system.
C10_Witness ==
  \E r \in Slots :
    /\ Gated(r)
    /\ ResolvedVersion(r, "app") = V110 /\ ResolvedVersion(r, "system") = V110
    /\ req[r].out.body.appVersion = V110
    /\ req[r].out.body.systemVersion = V100

\* The url of the response body for kind k.
UrlIn(body, k) == IF k = "app" THEN body.appUrl ELSE body.systemUrl
VersionIn(body, k) == IF k = "app" THEN body.appVersion ELSE body.systemVersion

\* C1 (SKU compatibility of Retrieve): every successful Retrieve response for
\* requested SKU s carries, for app and for system, a url under the skus/s/
\* partition of the returned version, or the legacy path with s the default
\* SKU; never a url resolved for a different SKU.
C1_SkuCompatibility ==
  \A r \in Slots :
    Answered(r) =>
      \A k \in Kinds :
        LET body == req[r].out.body
            sku == req[r].query.sku
        IN \/ UrlIn(body, k) =
                UrlOf(SkuPath(k, VersionIn(body, k), sku, ArtifactOf(k)))
           \/ /\ sku = DEFAULT_SKU
              /\ UrlIn(body, k) =
                   UrlOf(LegacyPath(k, VersionIn(body, k), ArtifactOf(k)))

\* The lookups that went through resolveArtifactPath.
Resolving == {t \in Slots \X Kinds : lk[t].hasSku # "unknown"}

\* C2 (legacy versions): resolveArtifactPath on a version without a skus/
\* subtree fails with NotFoundError for every SKU other than the default one,
\* returning no path; only the default SKU gets <kind>/<version>/<artifact>.
C2_LegacyOnlyDefaultSku ==
  \A t \in Resolving :
    ~HasSkusFolder(t[2], lk[t].version) =>
      IF lk[t].sku = DEFAULT_SKU
      THEN lk[t].path = LegacyPath(t[2], lk[t].version, lk[t].artifact)
      ELSE /\ lk[t].pc = "failed"
           /\ lk[t].error = "NotFoundError"
           /\ lk[t].path = Null

\* A lookup for the other SKU met a legacy version and failed with NotFoundError.
C2_Witness ==
  \E t \in Resolving :
    /\ ~HasSkusFolder(t[2], lk[t].version)
    /\ lk[t].sku = OTHER_SKU
    /\ lk[t].error = "NotFoundError"
    /\ LegacyPath(t[2], lk[t].version, lk[t].artifact) \in objects

\* C3 (partitioned versions): resolveArtifactPath on a version with a skus/
\* subtree returns <kind>/<version>/skus/<requested sku>/<artifact>, and only
\* when that object exists; otherwise it fails with NotFoundError and returns
\* neither another SKU's path nor the legacy path.
C3_PartitionedExactSku ==
  \A t \in Resolving :
    HasSkusFolder(t[2], lk[t].version) =>
      LET exact == SkuPath(t[2], lk[t].version, lk[t].sku, lk[t].artifact)
      IN IF exact \in objects
         THEN lk[t].path = exact
         ELSE /\ lk[t].pc = "failed"
              /\ lk[t].error = "NotFoundError"
              /\ lk[t].path = Null

\* A lookup for the default SKU met a partitioned version that has the other
\* SKU's artifact and a legacy artifact, and failed with NotFoundError.
C3_Witness ==
  \E t \in Resolving :
    /\ HasSkusFolder(t[2], lk[t].version)
    /\ lk[t].sku = DEFAULT_SKU
    /\ SkuPath(t[2], lk[t].version, OTHER_SKU, lk[t].artifact) \in objects
    /\ LegacyPath(t[2], lk[t].version, lk[t].artifact) \in objects
    /\ lk[t].error = "NotFoundError"

\* C7 (concurrent first-sightings): under every interleaving of concurrent
\* Retrieve requests that first-sight the same new version and of operator
\* rollout changes, each (version, type) has one row, and its rolloutPercentage
\* is the last value an operator set, or 10 if no operator set it: no Retrieve
\* overwrites an operator's value, and two first-sightings agree.
C7_FirstSightingsAgree ==
  /\ \A a, b \in db : (a.version = b.version /\ a.type = b.type) => a = b
  /\ \A row \in db :
       LET set == {o \in opSet : o.version = row.version /\ o.type = row.type}
       IN row.rolloutPercentage = IF set = {} THEN 10
                                  ELSE (CHOOSE o \in set : TRUE).value

\* Two requests sighted 1.1.0 concurrently: the first created its app row, an
\* operator moved that row off 10%, and the second is about to upsert it.
C7_Witness ==
  /\ req[1].pc \in {"upsertSystem", "defaultApp", "defaultSystem"}
  /\ req[1].latestApp.version = V110
  /\ req[2].pc = "upsertApp"
  /\ req[2].remoteRelease.appVersion = V110
  /\ \E o \in opSet : o.version = V110 /\ o.type = "app" /\ o.value # 10

\* C8 (the persisted store): across Retrieve, RetrieveLatestApp and
\* RetrieveLatestSystemRecovery requests the store holds at most one row per
\* (version, type), and no row that existed is deleted.
C8_OneRowPerVersionType ==
  [][/\ \A row \in db : RowExists(db', row.version, row.type)
     /\ \A a, b \in db' : (a.version = b.version /\ a.type = b.type) => a = b]_vars

\* A Retrieve resolved a version whose row had been created by a request of
\* another SKU: its upsert met the row and added none.
C8_Witness ==
  \E r \in Slots :
    /\ req[r].pc = "done" /\ req[r].op = "Retrieve"
    /\ req[r].latestApp # Null
    /\ req[r].latestApp.version = req[r].remoteRelease.appVersion
    /\ req[r].latestApp.url # req[r].remoteRelease.appUrl
    /\ Cardinality(db) > 2

\* The rows of a type at 100%.
RolledOut(type) == {row \in db : row.type = type /\ row.rolloutPercentage = 100}

\* `release` has the version, url and hash of `row`.
SameRelease(release, row) ==
  /\ release # Null
  /\ release.version = row.version
  /\ release.url = row.url
  /\ release.hash = row.hash

\* The request in slot r went on to read the default releases, and no store
\* call of it was rejected.
ReadDefaults(r) ==
  /\ req[r].pc = "done"
  /\ req[r].op = "Retrieve"
  /\ req[r].latestSystem # Null
  /\ ~req[r].query.forceUpdate
  /\ req[r].out.kind = "json" \/ req[r].out.error = "InternalServerError"

\* C11 (default release): getDefaultRelease(type) returns the row of the type
\* at rolloutPercentage 100 whose version is the semver maximum among those
\* rows, and fails with InternalServerError when the type has no row at 100.
C11_DefaultRelease ==
  \A r \in Slots :
    ReadDefaults(r) =>
      IF RolledOut("app") = {}
      THEN /\ req[r].defaultApp = Null
           /\ req[r].out = Throw("InternalServerError", "No default release found")
      ELSE /\ SameRelease(req[r].defaultApp, DefaultRow("app"))
           /\ IF RolledOut("system") = {}
              THEN /\ req[r].defaultSystem = Null
                   /\ req[r].out = Throw("InternalServerError",
                                         "No default release found")
              ELSE /\ SameRelease(req[r].defaultSystem, DefaultRow("system"))
                   /\ req[r].out.kind = "json"

\* With the app rows of 1.0.0 and 1.1.0 both at 100%, a request read 1.1.0 as
\* the default app release.
C11_Witness ==
  \E r \in Slots :
    /\ ReadDefaults(r)
    /\ {row.version : row \in RolledOut("app")} = {V100, V110}
    /\ req[r].defaultApp # Null
    /\ req[r].defaultApp.version = V110

\* Answered(r) for a forceUpdate request on the non-bypass path.
Forced(r) ==
  /\ Answered(r)
  /\ ~req[r].query.prerelease
  /\ req[r].query.appVersion = Star /\ req[r].query.systemVersion = Star
  /\ req[r].query.forceUpdate

\* C12 (forceUpdate): a Retrieve request with forceUpdate=true is answered, for
\* both kinds, with the version, url and hash it has just resolved from remote
\* storage, whatever the device's bucket and the rollout percentages, and
\* whether or not a default release exists.
C12_ForceUpdate ==
  \A r \in Slots :
    Forced(r) =>
      /\ req[r].defaultApp = Null /\ req[r].defaultSystem = Null
      /\ \A k \in Kinds :
           PartOf(req[r].out.body, k) = PartOf(req[r].remoteRelease, k)

\* The same for the versions alone.
C12_ForcedVersions ==
  \A r \in Slots :
    Forced(r) =>
      \A k \in Kinds : VersionIn(req[r].out.body, k) = ResolvedVersion(r, k)

\* C13 (rollout monotonicity): for every device bucket b in 0..99 and
\* percentages p <= q in 0..100, a device of bucket b eligible at p is eligible
\* at q; every device is eligible at 100 and none at 0.
C13_Monotonicity ==
  fnCall.fn = "isDeviceEligibleForLatestRelease" =>
    /\ getDeviceRolloutBucket(fnCall.deviceId) \in 0..99
    /\ fnCall.result =>
         \A q \in fnCall.rolloutPercentage..100 :
           isDeviceEligibleForLatestRelease(q, fnCall.deviceId)
    /\ fnCall.rolloutPercentage = 100 => fnCall.result
    /\ fnCall.rolloutPercentage = 0 => ~fnCall.result

\* The devices cover every bucket, and the device of bucket 99 was found not
\* eligible at 99%.
C13_Witness ==
  /\ {getDeviceRolloutBucket(d) : d \in BucketDevices} = 0..99
  /\ fnCall.fn = "isDeviceEligibleForLatestRelease"
  /\ getDeviceRolloutBucket(fnCall.deviceId) = 99
  /\ fnCall.rolloutPercentage = 99
  /\ ~fnCall.result

\* The raw query a parsed query came from.
RawOf(query) ==
  [deviceId |-> query.deviceId,
   prerelease |-> IF query.prerelease THEN "true" ELSE Undefined,
   appVersion |-> IF query.appVersion = Star THEN Undefined ELSE "^1.0.0",
   systemVersion |-> IF query.systemVersion = Star THEN Undefined ELSE "^1.0.0",
   sku |-> IF query.sku = DEFAULT_SKU THEN Undefined ELSE query.sku,
   forceUpdate |-> IF query.forceUpdate THEN "true" ELSE Undefined]

\* Remote storage has not changed since the entries of releaseCache were
\* made: each is what a lookup of its key resolves to now.
CacheIsCurrent ==
  \A k \in Kinds, pre \in BOOLEAN, range \in {Star, Caret1}, sku \in SKUs :
    CacheHas(releaseCache, CacheKey(k, pre, range, sku)) =>
      CacheGet(releaseCache, CacheKey(k, pre, range, sku)).version =
        semverMaxSatisfying({f \in folders[k] : semverValid(f)}, range, pre)

\* The worlds a second Retrieve with the query of slot r may end in, when it
\* starts in this state with `cache` as releaseCache.
Again(r, cache) ==
  RunRetrieve([World(r) EXCEPT !.request = IdleRequest,
                               !.lookup = [k \in Kinds |-> IdleLookup],
                               !.releaseCache = cache],
              RawOf(req[r].query))

RemoteCurrent(k, range, pre, sku) ==
  LET v == semverMaxSatisfying({f \in folders[k] : semverValid(f)}, range, pre)
      path == IF HasSkusFolder(k, v) THEN SkuPath(k, v, sku, ArtifactOf(k))
              ELSE LegacyPath(k, v, ArtifactOf(k))
  IN ReleaseMetadata(v, UrlOf(path), HashOf(path), range)

\* C15 (cache correctness of getLatestVersion): a call whose key (kind,
\* includePrerelease, range, sku) has an entry in releaseCache returns that
\* entry, whatever remote storage lists now, and makes no remote call; a call
\* whose key has no entry (never resolved, expired or cleared) returns, when it
\* returns, what remote storage holds now, and caches it.
C15_CacheCorrectness ==
  [][\A r \in Slots :
       Serves(r) =>
         \A k \in Kinds :
           LET lookup == lk'[<<r, k>>]
               key == CacheKey(k, req'[r].query.prerelease, RangeOf(req'[r].query, k),
                               req'[r].query.sku)
           IN IF CacheHas(releaseCache, key)
              THEN /\ lookup.pc = "done"
                   /\ lookup.release = CacheGet(releaseCache, key)
                   /\ lookup.version = Null /\ lookup.hasSku = "unknown"
                   /\ lookup.path = Null
                   /\ CacheGet(releaseCache', key) = CacheGet(releaseCache, key)
              ELSE lookup.pc = "done" =>
                     /\ lookup.release =
                          RemoteCurrent(k, RangeOf(req'[r].query, k),
                                        req'[r].query.prerelease, req'[r].query.sku)
                     /\ CacheHas(releaseCache', key)
                     /\ CacheGet(releaseCache', key) = lookup.release]_vars

\* A request was answered with the cached app release 1.0.0 after 1.1.0 had
\* been published.
C15_Witness ==
  \E r \in Slots :
    /\ Answered(r)
    /\ lk[<<r, "app">>].pc = "done"
    /\ lk[<<r, "app">>].version = Null
    /\ lk[<<r, "app">>].maxSatisfying = Star
    /\ lk[<<r, "app">>].release.version = V100
    /\ V110 \in folders["app"]
    /\ req[r].out.body.appVersion = V100

\* The cache key of a lookup of kind k.
KeyOf(k, lookup) == CacheKey(k, lookup.includePrerelease, lookup.maxSatisfying, lookup.sku)

\* The lookup of kind k in slot r missed the cache and has written its result.
Wrote(r, k) == lk[<<r, k>>].pc = "done" /\ lk[<<r, k>>].version # Null

\* C16 (cache races): two concurrent getLatestVersion misses on the same key
\* store the same value, and the cache entry of a key is never older than a
\* value a lookup in flight has returned for that key.
C16_CacheRaces ==
  \A k \in Kinds :
    /\ \A r1, r2 \in Slots :
         (/\ Wrote(r1, k) /\ Wrote(r2, k)
          /\ KeyOf(k, lk[<<r1, k>>]) = KeyOf(k, lk[<<r2, k>>]))
         => lk[<<r1, k>>].release = lk[<<r2, k>>].release
    /\ \A r \in Slots :
         (lk[<<r, k>>].pc = "done" /\ CacheHas(releaseCache, KeyOf(k, lk[<<r, k>>])))
         => semverCompare(CacheGet(releaseCache, KeyOf(k, lk[<<r, k>>])).version,
                          lk[<<r, k>>].release.version) >= 0

\* A redirect endpoint is served in slot r in this step.
Redirects(r) ==
  /\ req[r].pc = "idle"
  /\ req'[r].pc = "done"
  /\ req'[r].op \in Endpoints

\* C17 (integrity gate on the redirect endpoints): when the artifact fetched by
\* RetrieveLatestApp or RetrieveLatestSystemRecovery does not hash to its
\* digest file, the request fails with InternalServerError, no redirect is
\* issued and redirectCache is left as it was; every entry put into
\* redirectCache, and every redirect issued, is the url of an artifact that
\* passes verification.
C17_IntegrityGate ==
  [][\A r \in Slots :
       Redirects(r) =>
         LET lookup == lk'[<<r, EndpointKind(req'[r].op)>>]
         IN /\ (lookup.path # Null /\ lookup.path \in corrupt) =>
                 /\ req'[r].out = Throw("InternalServerError", "hash does not match")
                 /\ redirectCache' = redirectCache
            /\ \A e \in redirectCache' \ redirectCache :
                 /\ \E path \in objects \ corrupt : e.value = UrlOf(path)
                 /\ req'[r].out = Redirect(e.value)
            /\ req'[r].out.kind = "redirect" =>
                 \E path \in objects \ corrupt : req'[r].out.location = UrlOf(path)]_vars

\* A redirect endpoint fetched the damaged artifact of 1.1.0 and failed, with
\* nothing in redirectCache.
C17_Witness ==
  \E r \in Slots :
    /\ req[r].pc = "done"
    /\ req[r].op \in Endpoints
    /\ lk[<<r, EndpointKind(req[r].op)>>].path # Null
    /\ lk[<<r, EndpointKind(req[r].op)>>].path \in corrupt
    /\ lk[<<r, EndpointKind(req[r].op)>>].version = V110
    /\ req[r].out = Throw("InternalServerError", "hash does not match")
    /\ redirectCache = {}

\* The messages of the NotFoundErrors of getLatestVersion and resolveArtifactPath.
NotFoundMessages ==
  {"No versions found under prefix", "No valid versions found under prefix",
   "No version found under prefix that satisfies",
   "SKU is not available for version",
   "Version predates SKU support and cannot serve SKU"}

\* What Retrieve throws for a lookup that failed.
Classified(lookup) ==
  IF lookup.error = "NotFoundError" THEN Throw("NotFoundError", lookup.message)
  ELSE Throw("InternalServerError", "Failed to get the latest release from S3")

\* C18 (error classification of the remote lookups in Retrieve): if the app or
\* the system lookup fails the request produces no response and touches the
\* store in no way; a NotFoundError of a lookup (no versions, no valid
\* versions, no version satisfying the range, SKU unavailable) is thrown
\* unchanged, and any other failure is thrown as InternalServerError("Failed to
\* get the latest release from S3 ...").
C18_ErrorClassification ==
  [][\A r \in Slots :
       (Serves(r) /\ \E k \in Kinds : lk'[<<r, k>>].pc = "failed") =>
         /\ req'[r].out.kind = "error"
         /\ \E k \in Kinds : /\ lk'[<<r, k>>].pc = "failed"
                             /\ req'[r].out = Classified(lk'[<<r, k>>])
         /\ req'[r].out.error = "NotFoundError" =>
              req'[r].out.message \in NotFoundMessages
         /\ req'[r].dbOps = 0 /\ db' = db]_vars

\* The app lookup succeeded, the system lookup failed with a transport error,
\* and the request ended with the InternalServerError of the catch block.
C18_Witness ==
  \E r \in Slots :
    /\ req[r].pc = "done" /\ req[r].op = "Retrieve"
    /\ lk[<<r, "app">>].pc = "done"
    /\ lk[<<r, "system">>].pc = "failed"
    /\ lk[<<r, "system">>].error = "S3ServiceException"
    /\ req[r].out = Throw("InternalServerError",
                          "Failed to get the latest release from S3")

\* The error classes of the service itself.
ServiceErrors == {"NotFoundError", "BadRequestError", "InternalServerError"}

\* C19 (upstream failures are wrapped): an error raised by the persisted store
\* or by remote storage during Retrieve, RetrieveLatestApp or
\* RetrieveLatestSystemRecovery reaches the caller as NotFoundError,
\* BadRequestError or InternalServerError, never as the collaborator's own
\* error.
C19_UpstreamWrapped ==
  \A r \in Slots :
    (req[r].pc = "done" /\ req[r].out.kind = "error") =>
      req[r].out.error \in ServiceErrors

\* The same for Retrieve with a store that answers every call.
C19_RetrieveLookupsWrapped ==
  \A r \in Slots :
    (/\ req[r].pc = "done" /\ req[r].op = "Retrieve"
     /\ req[r].out.kind = "error"
     /\ req[r].out.error # "PrismaClientKnownRequestError") =>
      req[r].out.error \in ServiceErrors

\* C20 (input validation precedes all effects): Retrieve with a missing or
\* empty deviceId, whatever its other parameters, fails with
\* BadRequestError("Device ID is required") without starting a lookup and
\* without touching the caches or the store.
C20_ValidationFirst ==
  \A r \in Slots :
    req[r].pc = "idle" =>
      \A raw \in {q \in RawRetrieveQueries : q.deviceId = Undefined} :
        \A w \in RunRetrieve(World(r), raw) :
          /\ w.request.out = Throw("BadRequestError", "Device ID is required")
          /\ w.request.dbOps = 0
          /\ \A k \in Kinds : w.lookup[k] = IdleLookup
          /\ w.releaseCache = releaseCache
          /\ w.redirectCache = redirectCache
          /\ w.db = db

\* A request without deviceId was refused after an earlier request had filled
\* the cache and created the rows of 1.1.0.
C20_Witness ==
  \E r \in Slots :
    /\ req[r].pc = "done" /\ req[r].op = "Retrieve"
    /\ req[r].query = Null
    /\ req[r].out = Throw("BadRequestError", "Device ID is required")
    /\ releaseCache # {}
    /\ RowExists(db, V110, "app")

\* A raw range that is absent, empty or not a semver range.
Unparsable(range) == range = Undefined \/ validRange(range) = Null

\* The raw query with "*" in place of each such range.
Starred(raw) ==
  [raw EXCEPT !.appVersion = IF Unparsable(@) THEN "*" ELSE @,
              !.systemVersion = IF Unparsable(@) THEN "*" ELSE @]

\* C21 (permissive range policy): Retrieve with an appVersion or systemVersion
\* that is absent, empty or not a parsable range runs exactly as with "*" in
\* its place: the same outcomes in the same worlds; with no parsable pin it
\* never fails with BadRequestError, skipRollout is false, and on the stable
\* channel it goes through the upserts once both lookups have answered.
C21_PermissiveRanges ==
  \A r \in Slots :
    (Quiet /\ NextSlot(r)) =>
      \A raw \in {q \in RolloutQueries : q.deviceId # Undefined} :
        /\ RunRetrieve(World(r), raw) = RunRetrieve(World(r), Starred(raw))
        /\ (Unparsable(raw.appVersion) /\ Unparsable(raw.systemVersion)) =>
             \A w \in RunRetrieve(World(r), raw) :
               /\ ~w.request.skipRollout
               /\ w.request.out.kind = "error" =>
                    w.request.out.error # "BadRequestError"
               /\ (w.request.remoteRelease # Null /\ ~w.request.query.prerelease) =>
                    w.request.dbOps >= 1

\* A request whose ranges were normalized to "*", as "latest" is, went through
\* both upserts and both default reads, and the device of bucket 50 was gated
\* to 1.0.0 with 1.1.0 resolved.
C21_Witness ==
  \E r \in Slots :
    /\ Gated(r)
    /\ ~req[r].skipRollout
    /\ req[r].dbOps = 4
    /\ getDeviceRolloutBucket(req[r].query.deviceId) = 50
    /\ ResolvedVersion(r, "app") = V110
    /\ req[r].out.body.appVersion = V100
    /\ toSemverRange("latest") = req[r].query.appVersion

\* The listed names of kind k that are semver versions within the range, those
\* with a pre-release tag only if `pre`: "*" admits every version, "^1.0.0"
\* the versions of major 1 from 1.0.0 on.
Candidates(k, range, pre) ==
  {v \in folders[k] :
     /\ Len(v) = 4
     /\ pre \/ v[4] = 0
     /\ range = Star \/ (v[1] = 1 /\ ~(v[2] = 0 /\ v[3] = 0 /\ v[4] # 0))}

\* C22 (version selection): a lookup of Retrieve or of a redirect endpoint
\* that has listed remote storage has selected the maximum, in semver order,
\* of the listed semver names that satisfy its range, pre-releases being
\* candidates only with includePrerelease; from {1.0.0, 1.1.0, 2.0.0-beta.1}
\* and "*" that is 1.1.0 without includePrerelease and 2.0.0-beta.1 with it.
C22_VersionSelection ==
  \A r \in Slots, k \in Kinds :
    LET lookup == lk[<<r, k>>]
        candidates == Candidates(k, lookup.maxSatisfying, lookup.includePrerelease)
    IN lookup.version # Null =>
         /\ lookup.version \in candidates
         /\ \A other \in candidates : semverCompare(lookup.version, other) >= 0
         /\ (folders[k] = {V100, V110, V200beta} /\ lookup.maxSatisfying = Star) =>
              lookup.version = IF lookup.includePrerelease THEN V200beta ELSE V110

\* From {1.0.0, 1.1.0, 2.0.0-beta.1} a Retrieve on the prerelease channel was
\* answered with app 2.0.0-beta.1.
C22_Witness ==
  \E r \in Slots :
    /\ Answered(r)
    /\ folders["app"] = {V100, V110, V200beta}
    /\ lk[<<r, "app">>].includePrerelease
    /\ lk[<<r, "app">>].maxSatisfying = Star
    /\ lk[<<r, "app">>].version = V200beta
    /\ req[r].out.body.appVersion = V200beta

\* The messages of the NotFoundError thrown for an empty listing.
NoVersionsMessages ==
  {"No versions found under prefix", "No app versions found",
   "No versions found under prefix system recovery image"}

\* The messages of the NotFoundError thrown when no listed name is selected.
NoneSelectedMessages ==
  {"No valid versions found under prefix",
   "No version found under prefix that satisfies",
   "No valid app versions found", "No valid system recovery versions found"}

\* C23 (invalid names dropped, empty results are NotFound): in a lookup of
\* Retrieve or of a redirect endpoint whose listing came back, folder names that
\* are not semver versions do not count: with a valid name in range the lookup
\* selects the maximum of the valid ones and does not fail on the listing;
\* an empty listing, a listing without a valid name and a listing without a
\* name in range each end the lookup with NotFoundError, which a redirect
\* endpoint throws as it is.  The only other failure of such a lookup is the
\* listing call itself being rejected by remote storage.
C23_InvalidNamesDropped ==
  \A r \in Slots, k \in Kinds :
    LET lookup == lk[<<r, k>>]
        candidates == Candidates(k, lookup.maxSatisfying, lookup.includePrerelease)
        listingFault == lookup.error = "S3ServiceException"
                          /\ lookup.message = "ServiceUnavailable"
    IN /\ (lookup.pc = "failed" /\ candidates # {}) =>
            /\ lookup.error \in {"NotFoundError", "S3ServiceException", "InternalServerError"}
            /\ lookup.message \notin NoVersionsMessages \cup NoneSelectedMessages
       /\ (lookup.pc = "failed" /\ candidates = {}) =>
            \/ listingFault
            \/ /\ lookup.error = "NotFoundError"
               /\ lookup.message \in
                    IF folders[k] = {} THEN NoVersionsMessages ELSE NoneSelectedMessages
               /\ (req[r].op \in Endpoints /\ req[r].pc = "done") =>
                    req[r].out = Throw("NotFoundError", lookup.message)
       /\ (lookup.pc \in {"probe", "head", "hash"}
             \/ (lookup.pc = "done" /\ lookup.version # Null)) =>
            /\ candidates # {}
            /\ semverValid(lookup.version)
            /\ \A other \in candidates : semverCompare(lookup.version, other) >= 0

\* From the listing {1.0.0, not-semver} a redirect endpoint redirected to
\* 1.0.0, and a Retrieve was answered with 1.0.0.
C23_Witness ==
  /\ folders["app"] = {V100, InvalidName}
  /\ \E r \in Slots :
       /\ req[r].pc = "done"
       /\ req[r].out.kind \in {"json", "redirect"}
       /\ lk[<<r, "app">>].version = V100

\* A lookup over a listing of invalid names only ended with NotFoundError.
C23_WitnessNoValid ==
  \E r \in Slots, k \in Kinds :
    /\ folders[k] = {InvalidName}
    /\ lk[<<r, k>>].pc = "failed"
    /\ lk[<<r, k>>].error = "NotFoundError"

\* Both lookups of request r have succeeded.
BothLookedUp(r) == \A k \in Kinds : lk[<<r, k>>].pc = "done"

\* A lookup of request r has failed.
LookupFailed(r) == \E k \in Kinds : lk[<<r, k>>].pc = "failed"

\* C24 (join before proceeding): in every interleaving of the two lookups of a
\* Retrieve request with each other, with the other request and with the
\* operator, the request is at a persisted-store call, has made one or has a
\* JSON response only if both of its lookups have succeeded; a request with a
\* failed lookup has made no persisted-store call and is not at one.
C24_JoinBeforeProceeding ==
  \A r \in Slots :
    LET atStore == req[r].pc \in {"upsertApp", "upsertSystem", "defaultApp", "defaultSystem"}
        responded == req[r].out # Null /\ req[r].out.kind = "json"
    IN req[r].op = "Retrieve" =>
         /\ (atStore \/ req[r].dbOps > 0 \/ responded) => BothLookedUp(r)
         /\ LookupFailed(r) => (req[r].dbOps = 0 /\ ~atStore /\ ~responded)

\* One request has gone through the store and answered after both lookups,
\* while the other has thrown on a failed lookup with its second lookup still
\* in flight and no store call made.
C24_Witness ==
  \E r \in Slots, other \in Slots, k \in Kinds :
    /\ r # other
    /\ req[r].pc = "done" /\ req[r].out.kind = "json" /\ req[r].dbOps > 0
    /\ req[other].pc = "done" /\ req[other].out.kind = "error"
    /\ LookupFailed(other)
    /\ lk[<<other, k>>].pc \in {"list", "probe", "head", "hash"}

\* C25 (rollout bucket): getDeviceRolloutBucket returns an integer in 0..99 for
\* every device identifier, namely the remainder modulo 100 of the first 8 hex
\* digits of its MD5 digest read as an unsigned 32-bit integer
\* high * 2^16 + low: with high = 100 * a + b that number is a multiple of 100
\* plus b * 2^16 + low.
C25_RolloutBucket ==
  fnCall.fn = "getDeviceRolloutBucket" =>
    LET hashPrefix == Md5Prefix(fnCall.deviceId)
    IN /\ fnCall.result \in 0..99
       /\ fnCall.result = ((hashPrefix[1] % 100) * 65536 + hashPrefix[2]) % 100

\* The bucket of "device-eligible-3", whose digest starts with c39de4a5
\* (3281904805, above 2^31), is 5.
C25_Witness ==
  /\ fnCall.fn = "getDeviceRolloutBucket"
  /\ fnCall.deviceId = "device-eligible-3"
  /\ Md5Prefix(fnCall.deviceId)[1] >= 32768
  /\ fnCall.result = 5

\* Request r is between its first await and its outcome.
InFlight(r) == req[r].pc \notin {"idle", "done", "finished"}

\* Request r has its outcome: a JSON response, a redirect or a thrown error.
Ended(r) ==
  /\ req[r].pc \in {"done", "finished"}
  /\ req[r].pc = "done" => req[r].out.kind \in {"json", "redirect", "error"}

\* An outcome, once issued, is the outcome of the request until it is gone.
OneOutcome ==
  \A r \in Slots :
    req[r].out # Null =>
      \/ req'[r].out = req[r].out /\ req'[r].pc = "done"
      \/ req'[r].pc = "finished"

\* C26 (termination): every Retrieve, RetrieveLatestApp and
\* RetrieveLatestSystemRecovery request in flight eventually has an outcome,
\* given that each awaited collaborator call eventually returns or fails; a
\* request has an outcome exactly when it is done, and an outcome issued is
\* never followed by another one.
C26_Termination ==
  /\ \A r \in Slots : InFlight(r) ~> Ended(r)
  /\ [](\A r \in Slots : req[r].pc = "done" <=> req[r].out # Null)
  /\ [][OneOutcome]_vars

\* A redirect request has ended in a redirect and a Retrieve in an error, both
\* after awaiting remote storage.
C26_Witness ==
  \E r \in Slots, other \in Slots :
    /\ req[r].pc = "done" /\ req[r].op \in Endpoints /\ req[r].out.kind = "redirect"
    /\ lk[<<r, EndpointKind(req[r].op)>>].pc = "done"
    /\ req[other].pc = "done" /\ req[other].op = "Retrieve"
    /\ req[other].out.kind = "error"
    /\ LookupFailed(other)

\* C27 (one-sided pin): a Retrieve with exactly one of appVersion and
\* systemVersion pinned is answered, for the kind that is not pinned, with the
\* remote-resolved latest version of that kind, whatever the rollout
\* percentage of that version's row and the bucket of the device.
C27_OneSidedPin ==
  [][\A r \in Slots, pinned \in Kinds :
       (/\ Serves(r)
        /\ RangeOf(req'[r].query, pinned) # Star
        /\ RangeOf(req'[r].query, Other(pinned)) = Star
        /\ req'[r].out.kind = "json") =>
         Carries(req'[r].out.body, Other(pinned),
                 RemoteResolved(Other(pinned), Star, req'[r].query.prerelease,
                                req'[r].query.sku))]_vars

\* With only appVersion pinned, the device of bucket 50 got system 1.1.0 while
\* the row of system 1.1.0 was below 50%.
C27_Witness ==
  \E r \in Slots :
    /\ Answered(r)
    /\ ~req[r].query.prerelease
    /\ req[r].query.appVersion = Caret1 /\ req[r].query.systemVersion = Star
    /\ getDeviceRolloutBucket(req[r].query.deviceId) = 50
    /\ RowExists(db, V110, "system")
    /\ RowOf(V110, "system").rolloutPercentage < 50
    /\ req[r].out.body.systemVersion = V110

\* The same with only systemVersion pinned, for the app.
C27_WitnessSystemPinned ==
  \E r \in Slots :
    /\ Answered(r)
    /\ ~req[r].query.prerelease
    /\ req[r].query.appVersion = Star /\ req[r].query.systemVersion = Caret1
    /\ getDeviceRolloutBucket(req[r].query.deviceId) = 50
    /\ RowExists(db, V110, "app")
    /\ RowOf(V110, "app").rolloutPercentage < 50
    /\ req[r].out.body.appVersion = V110

\* The urls of the artifact of version v of kind k that serve `sku`.
UrlsFor(k, v, sku, artifact) ==
  {UrlOf(SkuPath(k, v, sku, artifact))}
    \cup (IF sku = DEFAULT_SKU THEN {UrlOf(LegacyPath(k, v, artifact))} ELSE {})

\* C28 (cache keys separate the lookup dimensions): a getLatestVersion call
\* that returns holds metadata computed for its own kind, range, prerelease
\* flag and SKU: a version within its range, tagged only if the range or the
\* flag admits it, resolved for its range, at a url of its SKU; and a redirect
\* leads to the artifact of its own endpoint, channel and SKU.
C28_KeysSeparate ==
  \A r \in Slots :
    /\ \A k \in Kinds :
         LET lookup == lk[<<r, k>>]
         IN (req[r].op = "Retrieve" /\ lookup.pc = "done") =>
              /\ semverSatisfies(lookup.release.version, lookup.maxSatisfying,
                                 lookup.includePrerelease)
              /\ MaxSatisfyingOf(lookup.release) = lookup.maxSatisfying
              /\ lookup.release.url \in
                   UrlsFor(k, lookup.release.version, lookup.sku, ArtifactOf(k))
    /\ (req[r].pc = "done" /\ req[r].op \in Endpoints /\ req[r].out.kind = "redirect") =>
         LET path == req[r].out.location[2]
         IN /\ path.prefix = EndpointKind(req[r].op)
            /\ path.artifact = EndpointArtifact(req[r].op)
            /\ req[r].query.prerelease \/ path.version[4] = 0
            /\ req[r].out.location \in
                 UrlsFor(path.prefix, path.version, req[r].query.sku, path.artifact)

\* The rows this step creates.
NewRows == {row \in db' : ~RowExists(db, row.version, row.type)}

\* C29 (only stable versions are persisted): every row a step creates is
\* created by a Retrieve with prerelease=false and both ranges "*"; its version
\* has no pre-release tag, its rolloutPercentage is 10, and its url and hash are
\* those of the release that request's lookup of the row's kind returned.
C29_OnlyStablePersisted ==
  [][\A row \in NewRows :
       \E r \in Slots :
         /\ Serves(r)
         /\ ~req'[r].query.prerelease
         /\ req'[r].query.appVersion = Star /\ req'[r].query.systemVersion = Star
         /\ row.version[4] = 0
         /\ row.rolloutPercentage = 10
         /\ lk'[<<r, row.type>>].pc = "done"
         /\ row.version = lk'[<<r, row.type>>].release.version
         /\ row.url = lk'[<<r, row.type>>].release.url
         /\ row.hash = lk'[<<r, row.type>>].release.hash
         /\ PartOf(req'[r].remoteRelease, row.type) = <<row.version, row.url, row.hash>>]_vars

\* With 2.0.0-beta.1 listed next to 1.1.0, a stable unpinned request has
\* created the app row of 1.1.0 at 10% and no row of 2.0.0-beta.1 exists.
C29_Witness ==
  \E r \in Slots :
    /\ Answered(r)
    /\ ~req[r].query.prerelease
    /\ req[r].query.appVersion = Star /\ req[r].query.systemVersion = Star
    /\ folders["app"] = {V100, V110, V200beta}
    /\ req[r].remoteRelease.appVersion = V110
    /\ RowExists(db, V110, "app")
    /\ RowOf(V110, "app").rolloutPercentage = 10
    /\ RowOf(V110, "app").url = req[r].remoteRelease.appUrl
    /\ ~RowExists(db, V200beta, "app")

\* The getLatestVersion call of kind k of request r fails in this step.
CallFails(r, k) == lk[<<r, k>>].pc # "failed" /\ lk'[<<r, k>>].pc = "failed"

\* The getLatestVersion call of kind k of Retrieve r, having missed
\* releaseCache, returns in this step.
MissReturns(r, k) ==
  /\ req[r].op = "Retrieve"
  /\ lk[<<r, k>>].pc = "hash"
  /\ lk'[<<r, k>>].pc = "done"

\* The callback of redirect request r returns in this step.
CallbackReturns(r) ==
  /\ req[r].op \in Endpoints
  /\ req[r].pc = "callback"
  /\ req'[r].pc = "done"
  /\ req'[r].out.kind = "redirect"

\* C30 (no partial or failed cache writes): a step in which a getLatestVersion
\* call fails, at the listing, the SKU probe, the existence check or the digest
\* fetch, changes neither cache, and so does the step in which a redirect
\* callback's error leaves the handler; releaseCache changes only when a call
\* that missed returns, and then by one entry, under the key of the call's own
\* parameters, holding its version, url and hash; redirectCache changes only
\* when a callback returns, by the entry of the request's key and target.
C30_NoPartialCacheWrites ==
  [][/\ \A r \in Slots, k \in Kinds :
          /\ CallFails(r, k) => UNCHANGED <<releaseCache, redirectCache>>
          /\ MissReturns(r, k) =>
               LET call == lk'[<<r, k>>]
               IN /\ releaseCache' = CacheSet(releaseCache, KeyOf(k, call), call.release)
                  /\ Cardinality({e \in releaseCache' : e.key = KeyOf(k, call)}) = 1
                  /\ call.release.version # Null
                  /\ call.release.url = UrlOf(call.path)
                  /\ call.release.hash = HashOf(call.path)
     /\ \A r \in Slots :
          (/\ req[r].op \in Endpoints /\ req[r].pc = "callback"
           /\ req'[r].pc = "done" /\ req'[r].out.kind = "error")
            => UNCHANGED <<releaseCache, redirectCache>>
     /\ releaseCache' # releaseCache => \E r \in Slots, k \in Kinds : MissReturns(r, k)
     /\ redirectCache' # redirectCache =>
          \E r \in Slots :
            /\ CallbackReturns(r)
            /\ redirectCache' =
                 CacheSet(redirectCache,
                          releaseCacheKey(EndpointName(req[r].op), req[r].query),
                          req'[r].out.location)]_vars

\* A Retrieve has thrown: its app lookup missed, returned and is cached, its
\* system lookup failed at the digest fetch and nothing is cached for it.
C30_Witness ==
  \E r \in Slots :
    /\ req[r].op = "Retrieve" /\ req[r].pc = "done" /\ req[r].out.kind = "error"
    /\ lk[<<r, "app">>].pc = "done" /\ lk[<<r, "app">>].path # Null
    /\ CacheHas(releaseCache, KeyOf("app", lk[<<r, "app">>]))
    /\ lk[<<r, "system">>].pc = "failed"
    /\ lk[<<r, "system">>].message = "ServiceUnavailable"
    /\ ~CacheHas(releaseCache, KeyOf("system", lk[<<r, "system">>]))

\* A recovery redirect has thrown on a digest that does not match and nothing
\* is cached under its key.
C30_WitnessCallbackThrew ==
  \E r \in Slots :
    /\ req[r].op = "RetrieveLatestSystemRecovery" /\ req[r].pc = "done"
    /\ req[r].out.kind = "error" /\ req[r].out.message = "hash does not match"
    /\ ~CacheHas(redirectCache, releaseCacheKey(EndpointName(req[r].op), req[r].query))

\* C31 (forceUpdate records the sighting): a Retrieve with forceUpdate=true,
\* prerelease=false and both ranges "*" that is answered has made exactly the
\* two upserts and no read of the default releases; after it a row exists for
\* each resolved (version, type), the rows it created are the first sightings
\* at 10%, and the rows that existed are as they were.
C31_ForceUpdateRecords ==
  [][\A r \in Slots :
       (/\ Serves(r)
        /\ req'[r].query.forceUpdate
        /\ ~req'[r].query.prerelease
        /\ \A k \in Kinds : RangeOf(req'[r].query, k) = Star
        /\ req'[r].out.kind = "json") =>
         /\ req'[r].dbOps = 2
         /\ req'[r].defaultApp = Null /\ req'[r].defaultSystem = Null
         /\ \A create \in FirstSightings(req'[r]) :
              /\ RowExists(db', create.version, create.type)
              /\ ~RowExists(db, create.version, create.type) =>
                   (create \in db' /\ create.rolloutPercentage = 10)
         /\ db \subseteq db'
         /\ NewRows \subseteq FirstSightings(req'[r])]_vars

\* A forced request of the device of bucket 50 has created the rows of 1.1.0
\* at 10% and was answered with 1.1.0.
C31_Witness ==
  \E r \in Slots :
    /\ Forced(r)
    /\ getDeviceRolloutBucket(req[r].query.deviceId) = 50
    /\ req[r].dbOps = 2
    /\ \A k \in Kinds :
         /\ ResolvedVersion(r, k) = V110
         /\ RowExists(db, V110, k)
         /\ RowOf(V110, k).rolloutPercentage = 10
    /\ req[r].out.body.appVersion = V110

\* The request served in this step is unpinned, on the stable channel and not
\* forced, and both of its upserts have returned.
ServesGated(r) ==
  /\ Serves(r)
  /\ ~req'[r].query.prerelease
  /\ \A k \in Kinds : RangeOf(req'[r].query, k) = Star
  /\ ~req'[r].query.forceUpdate
  /\ req'[r].latestSystem # Null

\* The error of getDefaultRelease.
NoDefault == Throw("InternalServerError", "No default release found")

\* C32 (side effects survive the no-default error): an unpinned, stable,
\* unforced Retrieve whose upserts have returned is answered only if each kind
\* has a row at 100%, and fails with InternalServerError only if a kind has
\* none; when it fails so, the rows of the resolved app and system versions
\* exist afterwards, those that were missing created at 10%, and no row is
\* removed or changed.  Without a row at 100% every such request fails.
C32_SideEffectsSurvive ==
  [][\A r \in Slots :
       ServesGated(r) =>
         /\ req'[r].out.kind = "json" => \A k \in Kinds : RolledOut(k) # {}
         /\ req'[r].out = NoDefault =>
              /\ \E k \in Kinds : RolledOut(k) = {}
              /\ db \subseteq db'
              /\ \A create \in FirstSightings(req'[r]) :
                   /\ RowExists(db', create.version, create.type)
                   /\ ~RowExists(db, create.version, create.type) => create \in db'
         /\ (\E k \in Kinds : RolledOut(k) = {}) =>
              \/ req'[r].out = NoDefault
              \/ req'[r].out.error = "PrismaClientKnownRequestError"]_vars

\* Over an empty table a request has failed for want of a default release and
\* has left the rows of app and system 1.0.0 at 10% behind.
C32_Witness ==
  \E r \in Slots :
    /\ req[r].pc = "done" /\ req[r].op = "Retrieve"
    /\ req[r].out = NoDefault
    /\ db = FirstSightings(req[r])
    /\ {<<row.version, row.type, row.rolloutPercentage>> : row \in db}
         = {<<V100, "app", 10>>, <<V100, "system", 10>>}

\* The version, url and hash of a record.
TripleOf(record) == <<record.version, record.url, record.hash>>

\* The records the request in slot r holds for kind k: what its lookup
\* returned, the row its upsert returned and the default row it read.
SourceRecords(r, k) ==
  {lk[<<r, k>>].release,
   IF k = "app" THEN req[r].latestApp ELSE req[r].latestSystem,
   IF k = "app" THEN req[r].defaultApp ELSE req[r].defaultSystem} \ {Null}

\* C33 (each kind's triple comes from one record): in every Retrieve response
\* the version, url and hash of the app are those of one record among the
\* remote-resolved metadata, the latest persisted row and the default
\* persisted row of the request, and likewise for the system.
C33_TripleFromOneRecord ==
  \A r \in Slots :
    Answered(r) =>
      \A k \in Kinds :
        \E record \in SourceRecords(r, k) :
          PartOf(req[r].out.body, k) = TripleOf(record)

\* A response carries the app row of 1.1.0, whose url is not the one the
\* request resolved for that version, next to a default row of 1.0.0: version
\* and url both come from the row.
C33_Witness ==
  \E r \in Slots :
    /\ Answered(r)
    /\ req[r].defaultApp # Null /\ req[r].defaultApp.version = V100
    /\ req[r].latestApp.version = V110
    /\ lk[<<r, "app">>].release.version = V110
    /\ lk[<<r, "app">>].release.url # req[r].latestApp.url
    /\ PartOf(req[r].out.body, "app") = TripleOf(req[r].latestApp)

\* The latest and the default record of kind k held by the request in slot r.
LatestOf(r, k) == IF k = "app" THEN req[r].latestApp ELSE req[r].latestSystem
DefaultOf(r, k) == IF k = "app" THEN req[r].defaultApp ELSE req[r].defaultSystem

\* C34 (ineligible devices are never ahead): in every answered unpinned,
\* stable, unforced Retrieve, for each kind whose latest row is at a
\* percentage that leaves devices on both sides (above 0 and below 100), the
\* default version, served to the ineligible ones, is not above the latest
\* version, served to the eligible ones by the same parameters.
C34_NeverAhead ==
  \A r \in Slots :
    Gated(r) =>
      \A k \in Kinds :
        (LatestOf(r, k).rolloutPercentage > 0 /\ LatestOf(r, k).rolloutPercentage < 100)
          => semverCompare(DefaultOf(r, k).version, LatestOf(r, k).version) <= 0

\* An artifact of version v of kind k can be resolved for `sku` from the
\* objects in remote storage.
Resolvable(k, v, sku) ==
  IF \E o \in objects : o.prefix = k /\ o.version = v /\ o.skus
  THEN SkuPath(k, v, sku, ArtifactOf(k)) \in objects
  ELSE sku = DEFAULT_SKU

\* The highest listed version of kind k satisfying the range of `call`.
MaxListed(k, call) ==
  semverMaxSatisfying({v \in folders[k] : semverValid(v)},
                      call.maxSatisfying, call.includePrerelease)

\* The messages of resolveArtifactPath's NotFoundError.
SkuMessages ==
  {"SKU is not available for version",
   "Version predates SKU support and cannot serve SKU"}

\* The getLatestVersion call of kind k of slot r ends in this step, having
\* missed the cache.
LookupEndsUncached(r, k) ==
  /\ req'[r].op = "Retrieve"
  /\ lk'[<<r, k>>] # lk[<<r, k>>]
  /\ lk'[<<r, k>>].pc \in {"done", "failed"}
  /\ ~CacheHas(releaseCache, CacheKey(k, lk'[<<r, k>>].includePrerelease,
                                      lk'[<<r, k>>].maxSatisfying, lk'[<<r, k>>].sku))

\* C35 (no fallback to an older version): a getLatestVersion call that missed
\* the cache returns metadata of exactly the highest listed version satisfying
\* its range, or fails; when that version's artifact cannot be resolved for the
\* requested SKU the call fails, whatever lower versions offer for that SKU:
\* with resolveArtifactPath's NotFoundError, unless a request to remote storage
\* was itself rejected before that.
C35_NoFallback ==
  [][\A r \in Slots, k \in Kinds :
       LookupEndsUncached(r, k) =>
         LET call == lk'[<<r, k>>]
             latestVersion == MaxListed(k, call)
         IN /\ call.pc = "done" => /\ latestVersion # Null
                                   /\ call.release.version = latestVersion
                                   /\ Resolvable(k, latestVersion, call.sku)
            /\ (latestVersion # Null /\ ~Resolvable(k, latestVersion, call.sku))
                 => /\ call.pc = "failed"
                    /\ \/ call.error = "NotFoundError" /\ call.message \in SkuMessages
                       \/ call.error = "S3ServiceException"]_vars

\* A default-SKU lookup failed on 1.1.0, partitioned without that SKU, while
\* 1.0.0 below it has the legacy artifact the default SKU is served from.
C35_Witness ==
  \E r \in Slots, k \in Kinds :
    /\ req[r].op = "Retrieve"
    /\ lk[<<r, k>>].pc = "failed"
    /\ lk[<<r, k>>].message = "SKU is not available for version"
    /\ lk[<<r, k>>].sku = DEFAULT_SKU
    /\ lk[<<r, k>>].version = V110
    /\ MaxListed(k, lk[<<r, k>>]) = V110
    /\ semverSatisfies(V100, lk[<<r, k>>].maxSatisfying, FALSE)
    /\ V100 \in folders[k]
    /\ Resolvable(k, V100, DEFAULT_SKU)

\* The callback in login slot c was sent to the already-adopted page.
SentToAlreadyAdopted(c) ==
  /\ cb[c].pc = "done"
  /\ cb[c].out = Redirect(Page(AlreadyAdoptedPage))

\* C36 (device adoption in the OIDC Callback): a callback whose look-up finds
\* the session's device adopted by a different user redirects to the
\* already-adopted page, draws no temp token and leaves prisma.device as it
\* is; and in every step of any interleaving of callbacks each device keeps
\* the owner it has, with one row per device id.
C36_FirstAdopterKeeps ==
  [][/\ \A c \in Logins :
          (/\ cb[c].pc = "findDevice"
           /\ cb'[c] # cb[c]
           /\ DeviceRow(device, cb[c].deviceId) # Null
           /\ DeviceRow(device, cb[c].deviceId).user # cb[c].subject)
            => /\ cb'[c].pc = "done"
               /\ cb'[c].out = Redirect(Page(AlreadyAdoptedPage))
               /\ cb'[c].tempToken = Undefined
               /\ device' = device
     /\ \A c \in Logins : cb[c].pc = "done" => cb'[c] = cb[c]
     /\ \A d \in device : \E e \in device' : e.id = d.id /\ e.user = d.user
     /\ \A d, e \in device' : d.id = e.id => d = e]_vars

\* Two users' callbacks for the same device both passed the look-up before
\* either wrote, and both have ended.
C36_Witness ==
  \E c, o \in Logins :
    /\ c # o
    /\ cb[c].pc = "done" /\ cb[o].pc = "done"
    /\ cb[c].subject # cb[o].subject
    /\ cb[c].subject # Undefined /\ cb[o].subject # Undefined
    /\ cb[c].deviceId # Undefined /\ cb[c].deviceId = cb[o].deviceId
    /\ cb[c].tempToken # Undefined /\ cb[o].tempToken # Undefined
    /\ cb[c].deviceAdopted = Null /\ cb[o].deviceAdopted = Null
    /\ DeviceRow(device, cb[c].deviceId) # Null

\* A callback was turned away: the device of its session belongs to another
\* user, who was sent back with a temp token.
C36_WitnessTurnedAway ==
  \E c, o \in Logins :
    /\ SentToAlreadyAdopted(c)
    /\ cb[c].tempToken = Undefined
    /\ DeviceRow(device, cb[c].deviceId) # Null
    /\ DeviceRow(device, cb[c].deviceId).user = cb[o].subject
    /\ cb[o].subject # cb[c].subject
    /\ cb[o].pc = "done" /\ cb[o].out # Null
    /\ cb[o].out.kind = "redirect"
    /\ cb[o].tempToken = DeviceRow(device, cb[c].deviceId).tempToken

\* The session of the call holds an ID token that verifies, whose payload has
\* sub, iss and exp, is unexpired at the clock reading and was issued by Google.
GoodToken(session, now) ==
  /\ session # Null
  /\ session.id_token # Null
  /\ session.id_token.verifies
  /\ \A claim \in {"sub", "iss", "exp"} : Truthy(session.id_token.payload, claim)
  /\ session.id_token.payload.exp * 1000 >= now
  /\ session.id_token.payload.iss = GOOGLE_ISSUER

\* C37 (the authenticated middleware): next() is called only when the session
\* exists, holds an ID token that verifies, the payload has sub, iss and exp,
\* the token is unexpired and the issuer is Google, and then req.subject and
\* req.issuer are the token's; in every other case the middleware throws
\* UnauthorizedError or BadRequestError, does not call next() and leaves
\* req.subject and req.issuer unset.
C37_NextOnlyWhenAuthenticated ==
  fnCall.fn = "authenticated" =>
    /\ fnCall.result.next <=> GoodToken(fnCall.session, fnCall.now)
    /\ fnCall.result.next
         => /\ fnCall.result.error = Undefined
            /\ fnCall.result.subject = fnCall.session.id_token.payload.sub
            /\ fnCall.result.issuer = GOOGLE_ISSUER
    /\ ~fnCall.result.next
         => /\ fnCall.result.error \in {"UnauthorizedError", "BadRequestError"}
            /\ fnCall.result.subject = Undefined
            /\ fnCall.result.issuer = Undefined

\* A token that verified and carries every claim was turned away because it
\* expired by the time of the check, one millisecond after its last second.
C37_Witness ==
  /\ fnCall.fn = "authenticated"
  /\ fnCall.session # Null
  /\ fnCall.session.id_token # Null
  /\ fnCall.session.id_token.verifies
  /\ fnCall.session.id_token.payload.claims = {"sub", "iss", "exp"}
  /\ fnCall.session.id_token.payload.iss = GOOGLE_ISSUER
  /\ fnCall.session.id_token.payload.exp = 1
  /\ fnCall.now = 1001
  /\ fnCall.result = Rejected("UnauthorizedError", "ID token has expired")

\* The middleware let a request through.
C37_WitnessPassed ==
  /\ fnCall.fn = "authenticated"
  /\ fnCall.result.next
  /\ fnCall.result.subject = "google-a"
  /\ fnCall.now = 1000
  /\ fnCall.session.id_token.payload.exp = 1

====
